---- MODULE Spec2Model ----
(***************************************************************************)
(* Website audit engine: the orchestrator (WebsiteScanner.runScan), its    *)
(* summary aggregation, score and top recommendations, and the analyzers'  *)
(* scan entry points as far as the orchestrator observes them.             *)
(***************************************************************************)
EXTENDS Integers, Sequences, FiniteSets, TLC

VARIABLES
    analyzers,   \* which scanner objects the WebsiteScanner holds
    pc,          \* position of the runScan invocation
    url,         \* the url argument of the invocation
    config,      \* the merged config of the invocation
    tasks,       \* one promise per analyzer category (runSingleScan)
    results,     \* the report under construction / returned
    thrown,      \* message of the exception that reached the caller, or ""
    info,        \* what the last getInfo() call returned, or NoInfo
    advanced,    \* an AdvancedSecurityScanner.scan(url) invocation
    performance, \* a PerformanceScanner.scan(url) invocation and its headless browser
    security,    \* a SecurityScanner.scan(url) invocation
    routine,     \* one check of an AdvancedSecurityScanner routine: its input and findings
    concurrent,  \* two runScan invocations on one WebsiteScanner and their results objects
    controller   \* the scan controller: scanResults, scanIdCounter and the scans in flight

\* what a runScan invocation reads and writes
runScanVars == <<analyzers, pc, url, config, tasks, results, thrown>>

\* what the other entry points write
moduleVars == <<info, advanced, performance, security>>

\* single checks and collaborators, each exercised by its own specification
otherVars == <<routine, concurrent, controller>>

vars == <<runScanVars, moduleVars, otherVars>>

(***************************************************************************)
(* Bounds of the model.                                                    *)
(***************************************************************************)
\* findings produced by page checks in one runScan invocation, all analyzers together
MaxFindings == 1
\* findings in one report handed to the recommendation selection
MaxReportFindings == 6
\* findings of mixed severities in a report handed to the score aggregation
MaxBaseFindings == 1
\* length of the run of equal findings added to one category of such a report
MaxRun == 11
\* probes that throw in one scan of the Active Security Analyzer
MaxProbeFailures == 1
\* routines of the Active Security Analyzer that throw outside their probes in one scan
MaxRoutineExceptions == 1

(***************************************************************************)
(* Values.                                                                 *)
(***************************************************************************)
\* Number.NaN, the result of incrementing an undefined counter
NaN == -1

Categories == <<"security", "advancedSecurity", "performance", "seo", "accessibility">>

CategorySet == {Categories[i] : i \in 1..Len(Categories)}

\* the keys a report can hold finding lists under
ResultKeys == CategorySet \cup {"unknown"}

SeverityValues == {"critical", "high", "medium", "low", "info"}

\* a finding without a severity property
NoSeverity == ""

\* a finding without a recommendation property
NoRecommendation == ""

Finding(c, s, i, r) == [category |-> c, severity |-> s, issue |-> i, recommendation |-> r]

\* a fulfilled value whose findings property is a truthy non-array
NotAnArray == <<Finding("", "", "<not an array>", "")>>

SeqsUpTo(S, n) == UNION {[1..k -> S] : k \in 0..n}

Capitalized(scanType) ==
    CASE scanType = "security" -> "Security"
      [] scanType = "advancedSecurity" -> "AdvancedSecurity"
      [] scanType = "performance" -> "Performance"
      [] scanType = "seo" -> "Seo"
      [] scanType = "accessibility" -> "Accessibility"
      [] OTHER -> "Unknown"

(***************************************************************************)
(* URL input and normalizeUrl.  A URL string is kept as its three parts;   *)
(* an input that is no string at all is NonString.                         *)
(***************************************************************************)
UrlString(s, h, p) == [isString |-> TRUE, scheme |-> s, host |-> h, path |-> p]

NonString == [isString |-> FALSE, scheme |-> "", host |-> "", path |-> ""]

Schemes == {"", "http://", "https://"}

Hosts == {"example.com", "exa mple"}

Paths == {""}

UrlInputs ==
    {NonString}
        \cup {UrlString(s, "", "") : s \in Schemes}
        \cup {UrlString(s, h, p) : s \in Schemes, h \in Hosts, p \in Paths}

\* !url || typeof url !== 'string'
UrlMissing(u) == ~u.isString \/ (u.scheme = "" /\ u.host = "" /\ u.path = "")

\* new URL(text) throws: an empty host or a forbidden host code point
URLParseThrows(u) == u.host = "" \/ u.host = "exa mple"

\* URL.href: the serialised URL, an empty path becoming "/"
Href(u) == u.scheme \o u.host \o (IF u.path = "" THEN "/" ELSE u.path)

\* a scheme test that knows 'https://' only
WithDefaultSchemeHttpsOnly(raw) ==
    IF raw.scheme # "https://" THEN [raw EXCEPT !.scheme = "https://"] ELSE raw

WithDefaultScheme(raw) ==
    IF raw.scheme # "http://" /\ raw.scheme # "https://"
    THEN [raw EXCEPT !.scheme = "https://"]
    ELSE raw

normalizeUrl(raw) ==
    LET u == WithDefaultScheme(raw)
    IN  IF URLParseThrows(u)
        THEN [ok |-> FALSE, href |-> "", error |-> "Invalid URL format"]
        ELSE [ok |-> TRUE, href |-> Href(u), error |-> ""]

(***************************************************************************)
(* Config.                                                                 *)
(***************************************************************************)
Options == [security : BOOLEAN, performance : BOOLEAN, seo : BOOLEAN, accessibility : BOOLEAN]

DefaultConfig == [security |-> TRUE, performance |-> TRUE, seo |-> TRUE, accessibility |-> TRUE]

\* a launch list that pushes the active-security task whatever config.security says
ScanPromisesAdvancedAlways(cfg) ==
    (IF cfg.security THEN <<"security">> ELSE <<>>)
        \o <<"advancedSecurity">>
        \o (IF cfg.performance THEN <<"performance">> ELSE <<>>)
        \o (IF cfg.seo THEN <<"seo">> ELSE <<>>)
        \o (IF cfg.accessibility THEN <<"accessibility">> ELSE <<>>)

\* the scanPromises array, as the categories whose task was pushed, in push order
ScanPromises(cfg) ==
    (IF cfg.security THEN <<"security", "advancedSecurity">> ELSE <<>>)
        \o (IF cfg.performance THEN <<"performance">> ELSE <<>>)
        \o (IF cfg.seo THEN <<"seo">> ELSE <<>>)
        \o (IF cfg.accessibility THEN <<"accessibility">> ELSE <<>>)

enabledScans(cfg) ==
    (IF cfg.security THEN <<"security", "advancedSecurity">> ELSE <<>>)
        \o (IF cfg.performance THEN <<"performance">> ELSE <<>>)
        \o (IF cfg.seo THEN <<"seo">> ELSE <<>>)
        \o (IF cfg.accessibility THEN <<"accessibility">> ELSE <<>>)

\* a lookup that ignores which categories are enabled
getScanTypeByIndexIgnoringConfig(index, cfg) ==
    IF index \in 1..Len(Categories) THEN Categories[index] ELSE "unknown"

\* a lookup that counts one slot for the security flag
getScanTypeByIndexOfOneSecuritySlot(index, cfg) ==
    IF index \in 1..Len(SelectSeq(enabledScans(cfg), LAMBDA c : c # "advancedSecurity"))
    THEN SelectSeq(enabledScans(cfg), LAMBDA c : c # "advancedSecurity")[index]
    ELSE "unknown"

\* index is 1-based here: the code's index + 1
getScanTypeByIndex(index, cfg) ==
    IF index \in 1..Len(enabledScans(cfg)) THEN enabledScans(cfg)[index] ELSE "unknown"

Launched(cfg) == {ScanPromises(cfg)[i] : i \in 1..Len(ScanPromises(cfg))}

(***************************************************************************)
(* The analyzers, as runSingleScan observes them.  A shipped analyzer's    *)
(* scan(url) is decided by what its first fetch does and by what its page  *)
(* checks find; a custom scanner object may return or throw anything.      *)
(***************************************************************************)
FetchOutcomes == {"throws", "nodata", "data"}

\* severities the page checks of an analyzer assign
SeveritiesOf(cat) ==
    IF cat = "advancedSecurity" THEN SeverityValues ELSE SeverityValues \ {"critical"}

\* a finding of one of the analyzer's page checks
CheckFinding(cat, sev) == Finding("Check", sev, cat \o " check", "Fix the " \o sev \o " issue")

CheckFindings(cat) == {CheckFinding(cat, sev) : sev \in SeveritiesOf(cat)}

IsCheckFinding(f) == f.category = "Check"

\* the finding pushed by the catch block of scan(url)
ScanErrorFinding(cat) ==
    IF cat = "advancedSecurity"
    THEN Finding("Advanced Scan Error", "medium", "Advanced security scan error",
                 "Review target accessibility and retry scan")
    ELSE Finding("Error", "medium", Capitalized(cat) \o " scan error",
                 "Review website accessibility and retry scan")

\* the finding pushed when the response carries no data
ConnectionFinding(cat) ==
    Finding("Connection", "high", "Unable to fetch website",
            IF cat = "performance"
            THEN "Check website availability and network connectivity"
            ELSE "Verify URL and server availability")

Returns(fetch, findings) == [kind |-> "returns", fetch |-> fetch, findings |-> findings, message |-> ""]

Throws(fetch, message) == [kind |-> "throws", fetch |-> fetch, findings |-> <<>>, message |-> message]

\* a scan(url) without its try/catch: a failed fetch propagates
scanWithoutCatch(cat, fetch, found) ==
    CASE fetch = "throws" -> Throws(fetch, "connect ECONNREFUSED")
      [] fetch = "nodata" ->
            IF cat = "advancedSecurity"
            THEN Throws(fetch, "Unable to fetch target website")
            ELSE Returns(fetch, <<ConnectionFinding(cat)>>)
      [] OTHER -> Returns(fetch, found)

\* scan(url) of the five shipped analyzers: found is what the page checks pushed
scan(cat, fetch, found) ==
    CASE fetch = "throws" -> Returns(fetch, <<ScanErrorFinding(cat)>>)
      [] fetch = "nodata" ->
            IF cat = "advancedSecurity"
            THEN Returns(fetch, <<ScanErrorFinding(cat)>>)
            ELSE Returns(fetch, <<ConnectionFinding(cat)>>)
      [] OTHER -> Returns(fetch, found)

\* what a scanner object that is not one of the shipped analyzers may do
CustomOutcomes(cat, lists) ==
    {Throws("none", "scanner failure")}
        \cup {Returns("none", NotAnArray)}
        \cup {Returns("none", l) : l \in lists}

\* shipped analyzers whose scan lets a failed fetch propagate to the caller
ShippedOutcomesUncaught(cat, lists) ==
    {scanWithoutCatch(cat, "throws", <<>>), scanWithoutCatch(cat, "nodata", <<>>)}
        \cup {scanWithoutCatch(cat, "data", l) : l \in lists}

ShippedOutcomes(cat, lists) ==
    {scan(cat, "throws", <<>>), scan(cat, "nodata", <<>>)}
        \cup {scan(cat, "data", l) : l \in lists}

(***************************************************************************)
(* Tasks: the promises returned by runSingleScan.                          *)
(***************************************************************************)
NoTask == [status |-> "none", fetch |-> "none", value |-> <<>>, reason |-> ""]

PendingTask == [NoTask EXCEPT !.status = "pending"]

runSingleScan(type, outcome) ==
    IF outcome.kind = "returns"
    THEN [status |-> "fulfilled", fetch |-> outcome.fetch, value |-> outcome.findings,
          reason |-> ""]
    ELSE [status |-> "rejected", fetch |-> outcome.fetch, value |-> <<>>,
          reason |-> type \o " scan error: " \o outcome.message]

\* Promise.all: the join ends at the first rejection
allOrFirstRejection(ts, cfg) ==
    \/ \A c \in Launched(cfg) : ts[c].status = "fulfilled"
    \/ \E c \in Launched(cfg) : ts[c].status = "rejected"

\* Promise.allSettled: the join resolves once no task is pending
allSettled(ts, cfg) == \A c \in Launched(cfg) : ts[c].status \in {"fulfilled", "rejected"}

(***************************************************************************)
(* The report.                                                             *)
(***************************************************************************)
ZeroCounters == [total |-> 0, high |-> 0, medium |-> 0, low |-> 0, info |-> 0]

InitialSummary ==
    [totalIssues |-> 0, highSeverityIssues |-> 0, mediumSeverityIssues |-> 0,
     lowSeverityIssues |-> 0, infoItems |-> 0,
     categories |-> [c \in CategorySet |-> ZeroCounters]]

\* the results object runScan builds before launching anything
NewReport(normalizedUrl) ==
    [url |-> normalizedUrl,
     lists |-> [c \in CategorySet |-> <<>>],
     summary |-> InitialSummary,
     errors |-> <<>>]

\* results[key] = value
SetList(lists, key, value) ==
    IF key \in DOMAIN lists THEN [lists EXCEPT ![key] = value] ELSE lists @@ (key :> value)

\* results[key] || []
ListOf(res, key) == IF key \in DOMAIN res.lists THEN res.lists[key] ELSE <<>>

\* the finding substituted for the result of a rejected task
ScanFailedFinding(scanType) ==
    Finding("Error", "high", Capitalized(scanType) \o " scan failed",
            "Review network connectivity and target website availability")

\* the body of scanResults.forEach for one settled result
ProcessResult(res, scanType, result) ==
    IF result.status = "fulfilled"
    THEN [res EXCEPT !.lists = SetList(@, scanType, result.value)]
    ELSE [res EXCEPT !.errors = Append(@, [category |-> scanType, error |-> result.reason]),
                     !.lists = SetList(@, scanType, <<ScanFailedFinding(scanType)>>)]

RECURSIVE ProcessFrom(_, _, _, _)
ProcessFrom(res, cfg, ts, index) ==
    IF index > Len(ScanPromises(cfg))
    THEN res
    ELSE ProcessFrom(ProcessResult(res, getScanTypeByIndex(index, cfg), ts[ScanPromises(cfg)[index]]),
                     cfg, ts, index + 1)

\* scanResults.forEach((result, index) => ...)
ProcessResults(res, cfg, ts) == ProcessFrom(res, cfg, ts, 1)

(***************************************************************************)
(* generateSummary, calculateScore, getTopRecommendations.                 *)
(***************************************************************************)
\* x++ on a counter
Inc(v) == IF v = NaN THEN NaN ELSE v + 1

\* counters[key]++, the key possibly not being a property of counters yet
BumpKey(counters, key) ==
    IF key \in DOMAIN counters
    THEN [counters EXCEPT ![key] = Inc(@)]
    ELSE counters @@ (key :> NaN)

\* finding.severity || 'info'
SeverityOf(finding) == IF finding.severity = NoSeverity THEN "info" ELSE finding.severity

\* the body of findings.forEach for one finding
CountFinding(summary, category, finding) ==
    LET severity == SeverityOf(finding)
        perCategory ==
            IF category \in DOMAIN summary.categories
            THEN [summary.categories EXCEPT
                    ![category] = BumpKey([@ EXCEPT !.total = Inc(@)], severity)]
            ELSE summary.categories
    IN  [summary EXCEPT
            !.categories = perCategory,
            !.totalIssues = Inc(@),
            !.highSeverityIssues = IF severity = "high" THEN Inc(@) ELSE @,
            !.mediumSeverityIssues = IF severity = "medium" THEN Inc(@) ELSE @,
            !.lowSeverityIssues = IF severity = "low" THEN Inc(@) ELSE @,
            !.infoItems = IF severity = "info" THEN Inc(@) ELSE @]

RECURSIVE CountFindings(_, _, _, _)
CountFindings(summary, category, findings, i) ==
    IF i > Len(findings)
    THEN summary
    ELSE CountFindings(CountFinding(summary, category, findings[i]), category, findings, i + 1)

\* categories.forEach of generateSummary from the k-th category on; forEach on a
\* value that is no array throws and leaves the counters as they are at that point
RECURSIVE Aggregate(_, _, _)
Aggregate(res, summary, k) ==
    IF k > Len(Categories)
    THEN [summary |-> summary, threw |-> FALSE]
    ELSE IF ListOf(res, Categories[k]) = NotAnArray
         THEN [summary |-> summary, threw |-> TRUE]
         ELSE Aggregate(res, CountFindings(summary, Categories[k], ListOf(res, Categories[k]), 1),
                        k + 1)

maxDeduction == 100

Max(a, b) == IF a >= b THEN a ELSE b

\* a score without the floor at 0
calculateScoreNoFloor(summary) ==
    maxDeduction - (summary.highSeverityIssues * 10
                      + summary.mediumSeverityIssues * 5
                      + summary.lowSeverityIssues * 2)

calculateScore(summary) ==
    LET deductions == summary.highSeverityIssues * 10
                        + summary.mediumSeverityIssues * 5
                        + summary.lowSeverityIssues * 2
    IN  Max(0, maxDeduction - deductions)

\* the categories getTopRecommendations iterates over
RecommendationCategories == <<"security", "performance", "seo", "accessibility">>

\* findings.filter(f => f.severity === 'high')
HighSeverityFindings(findings) == SelectSeq(findings, LAMBDA f : f.severity = "high")

\* array.slice(0, n)
Slice(seq, n) == SubSeq(seq, 1, IF Len(seq) < n THEN Len(seq) ELSE n)

Includes(seq, x) == \E i \in 1..Len(seq) : seq[i] = x

\* a push that does not look for the text among the recommendations collected so far
PushRecommendationNoDedupe(recommendations, finding) ==
    IF finding.recommendation # NoRecommendation
    THEN Append(recommendations, finding.recommendation)
    ELSE recommendations

\* the body of highSeverityFindings.slice(0, 2).forEach for one finding
PushRecommendation(recommendations, finding) ==
    IF finding.recommendation # NoRecommendation
         /\ ~Includes(recommendations, finding.recommendation)
    THEN Append(recommendations, finding.recommendation)
    ELSE recommendations

RECURSIVE PushAll(_, _, _)
PushAll(recommendations, findings, i) ==
    IF i > Len(findings)
    THEN recommendations
    ELSE PushAll(PushRecommendation(recommendations, findings[i]), findings, i + 1)

RECURSIVE Collect(_, _, _)
Collect(res, recommendations, k) ==
    IF k > Len(RecommendationCategories)
    THEN recommendations
    ELSE Collect(res,
                 PushAll(recommendations,
                         Slice(HighSeverityFindings(ListOf(res, RecommendationCategories[k])), 2),
                         1),
                 k + 1)

getTopRecommendations(res) == Slice(Collect(res, <<>>, 1), 5)

\* generateSummary mutates results.summary; threw tells whether it completed
generateSummary(res) ==
    LET agg == Aggregate(res, res.summary, 1)
        counted == [res EXCEPT !.summary = agg.summary]
    IN  IF agg.threw
        THEN [results |-> counted, threw |-> TRUE]
        ELSE [results |->
                [counted EXCEPT !.summary =
                    @ @@ ("overallScore" :> calculateScore(agg.summary))
                      @@ ("topRecommendations" :> getTopRecommendations(counted))],
              threw |-> FALSE]

(***************************************************************************)
(* The Active Security Analyzer: AdvancedSecurityScanner.scan and its ten  *)
(* routines. A probe is one request of a routine's probing loop, made      *)
(* inside the loop's own try/catch.                                        *)
(***************************************************************************)
AdvancedFinding(c, s, i, e) == [category |-> c, severity |-> s, issue |-> i, evidence |-> e]

\* the payloads of the reflected-XSS test
xssPayloads ==
    <<"<script>alert('XSS')</script>",
      "<img src=x onerror=alert('XSS')>",
      "'><script>alert('XSS')</script>",
      "javascript:alert('XSS')",
      "<svg onload=alert('XSS')>",
      "';alert('XSS');//">>

\* the names a query parameter of the scanned URL may have; "" for no query
QueryParams == {"", "q", "url"}

AnyParam == QueryParams \ {""}

\* a probing loop that reports the given issue when the response matches;
\* params: the query parameters it runs for, or {""} when it does not depend
\* on the query; failure: the issue its catch block reports, if any
Check(issue, severity, params, failure) ==
    [kind |-> "check", issue |-> issue, severity |-> severity, params |-> params,
     payload |-> "", failure |-> failure]

\* one payload of xssPayloads.slice(0, 3) set on a query parameter
XssProbe(payload) ==
    [kind |-> "xss", issue |-> "Reflected XSS Vulnerability", severity |-> "high",
     params |-> AnyParam, payload |-> payload, failure |-> ""]

Routines ==
    <<[name |-> "scanBrokenAccessControl", category |-> "Broken Access Control",
       error |-> "Access control scan error",
       probes |-> <<Check("Directory Traversal Vulnerability", "critical", {""}, ""),
                    Check("Accessible Admin Interface", "high", {""}, ""),
                    Check("Dangerous HTTP Methods Enabled", "high", {""}, ""),
                    Check("HTTP Parameter Pollution", "medium", {""}, "")>>],
      [name |-> "scanCryptographicFailures", category |-> "Cryptographic Failures",
       error |-> "Cryptographic scan error",
       probes |-> <<Check("Weak Cipher Suite", "high", {""}, "SSL Analysis Error")>>],
      [name |-> "scanInjectionVulnerabilities", category |-> "Injection",
       error |-> "Injection scan error",
       probes |-> <<Check("SQL Injection Vulnerability", "critical", AnyParam, ""),
                    Check("SQL Injection in Form", "critical", {""}, ""),
                    XssProbe(xssPayloads[1]),
                    XssProbe(xssPayloads[2]),
                    XssProbe(xssPayloads[3]),
                    Check("Command Injection Vulnerability", "critical", AnyParam, ""),
                    Check("Potential LDAP Injection", "high", {"user", "login"}, "")>>],
      [name |-> "scanInsecureDesign", category |-> "Insecure Design",
       error |-> "Insecure design scan error",
       probes |-> <<Check("Missing rate limiting", "low", {""}, ""),
                    Check("Information disclosure in error messages", "low", {""}, "")>>],
      [name |-> "scanSecurityMisconfiguration", category |-> "Security Misconfiguration",
       error |-> "Configuration scan error",
       probes |-> <<Check("Security.txt file is missing", "info", {""}, ""),
                    Check("Sensitive configuration file accessible", "high", {""}, ""),
                    Check("Information disclosure file accessible", "info", {""}, ""),
                    Check("Potentially dangerous HTTP methods enabled", "medium", {""}, "")>>],
      [name |-> "scanVulnerableComponents", category |-> "Vulnerable Components",
       error |-> "Component scan error", probes |-> <<>>],
      [name |-> "scanAuthenticationFailures", category |-> "Authentication Failures",
       error |-> "Authentication scan error", probes |-> <<>>],
      [name |-> "scanSoftwareIntegrityFailures", category |-> "Software & Data Integrity",
       error |-> "Integrity scan error", probes |-> <<>>],
      [name |-> "scanLoggingMonitoringFailures", category |-> "Logging & Monitoring",
       error |-> "Logging scan error",
       probes |-> <<Check("Verbose Error Messages", "low", {""}, "")>>],
      [name |-> "scanSSRFVulnerabilities", category |-> "Server-Side Request Forgery",
       error |-> "SSRF scan error",
       probes |-> <<Check("Potential SSRF Vulnerability", "high", {"url"}, "")>>]>>

\* the scan before its first step; query, reflection and vulnerable describe
\* the target once the scan has started
AdvancedIdle ==
    [pc |-> "idle", query |-> "", reflection |-> "escaped", vulnerable |-> FALSE,
     fetch |-> "none", routine |-> 1, probe |-> 1, findings |-> <<>>, returned |-> {},
     threw |-> {}, probeFailures |-> 0]

\* the performance scan before its first step
PerformanceIdle ==
    [pc |-> "idle", fetch |-> "none", page |-> <<>>, findings |-> <<>>, step |-> 1,
     browser |-> "none", failed |-> "", loadTime |-> 0, firstContentfulPaint |-> 0,
     heap |-> 0]

\* the baseline security scan before its first step
SecurityIdle ==
    [pc |-> "idle", scheme |-> "", headers |-> <<>>, fetch |-> "none", thrownAt |-> 0,
     findings |-> <<>>]

(***************************************************************************)
(* getInfo.                                                                *)
(***************************************************************************)
NoInfo == [name |-> ""]

\* a getInfo that reports the scans in flight as it finds them
getInfoOfRunningScans ==
    [name |-> "Website Audit Tool Scanner",
     version |-> "1.0.0",
     description |->
        "Comprehensive website security, performance, SEO, and accessibility scanner",
     capabilities |-> <<"OWASP Top 10 Security Checks",
                        "Performance Analysis (Lighthouse-style)",
                        "SEO Optimization Review",
                        "WCAG Accessibility Compliance",
                        "Structured JSON Reports",
                        "Parallel Scanning for Speed">>,
     supportedProtocols |-> <<"http", "https">>,
     maxConcurrentScans |-> Cardinality({c \in CategorySet : tasks[c].status = "pending"})]

getInfo ==
    [name |-> "Website Audit Tool Scanner",
     version |-> "1.0.0",
     description |->
        "Comprehensive website security, performance, SEO, and accessibility scanner",
     capabilities |-> <<"OWASP Top 10 Security Checks",
                        "Performance Analysis (Lighthouse-style)",
                        "SEO Optimization Review",
                        "WCAG Accessibility Compliance",
                        "Structured JSON Reports",
                        "Parallel Scanning for Speed">>,
     supportedProtocols |-> <<"http", "https">>,
     maxConcurrentScans |-> 4]

\* no check of a routine has been run
RoutineIdle == [pc |-> "idle"]

\* a runScan invocation that has not been made yet
NoCall ==
    [pc |-> "idle", url |-> NonString, config |-> DefaultConfig,
     tasks |-> [c \in CategorySet |-> NoTask], thrown |-> ""]

ConcurrentIdle ==
    [calls |-> [k \in 1..2 |-> NoCall], objects |-> <<>>]

\* const scanResults = new Map(); let scanIdCounter = 1; no request answered
ControllerIdle ==
    [scanResults |-> <<>>, scanIdCounter |-> 1, responses |-> <<>>, settled |-> {}]

\* no entry point other than runScan has been called
ModulesIdle ==
    /\ info = NoInfo
    /\ advanced = AdvancedIdle
    /\ performance = PerformanceIdle
    /\ security = SecurityIdle
    /\ routine = RoutineIdle
    /\ concurrent = ConcurrentIdle
    /\ controller = ControllerIdle

(***************************************************************************)
(* runScan as a state machine.                                             *)
(***************************************************************************)
OptionKeys == {"security", "performance", "seo", "accessibility"}

\* an options object sets any subset of the four flags
OptionObjects == UNION {[K -> BOOLEAN] : K \in SUBSET OptionKeys}

\* { security: true, performance: true, seo: true, accessibility: true, ...options }
MergeConfig(options) == options @@ DefaultConfig

\* check findings the settled tasks hold
Used(ts) ==
    LET n(c) == Len(SelectSeq(ts[c].value, IsCheckFinding))
    IN  n("security") + n("advancedSecurity") + n("performance") + n("seo") + n("accessibility")

FoundLists(cat, ts) == SeqsUpTo(CheckFindings(cat), MaxFindings - Used(ts))

ScanOutcomes(cat, ts) ==
    IF analyzers = "shipped"
    THEN ShippedOutcomes(cat, FoundLists(cat, ts))
    ELSE CustomOutcomes(cat, FoundLists(cat, ts))

Init ==
    /\ analyzers \in {"shipped", "custom"}
    /\ pc = "idle"
    /\ url = NonString
    /\ config = DefaultConfig
    /\ tasks = [c \in CategorySet |-> NoTask]
    /\ results = NewReport("")
    /\ thrown = ""
    /\ ModulesIdle

\* a runScan that builds the task list before it looks at the URL
RunScanLaunchFirst(input, options) ==
    /\ pc = "idle"
    /\ url' = input
    /\ config' = MergeConfig(options)
    /\ tasks' = [c \in CategorySet |->
                    IF c \in Launched(MergeConfig(options)) THEN PendingTask ELSE NoTask]
    /\ IF UrlMissing(input)
       THEN pc' = "thrown" /\ thrown' = "Valid URL is required for scanning"
                           /\ UNCHANGED results
       ELSE IF ~normalizeUrl(input).ok
       THEN pc' = "thrown" /\ thrown' = normalizeUrl(input).error /\ UNCHANGED results
       ELSE pc' = "awaiting" /\ results' = NewReport(normalizeUrl(input).href)
                             /\ UNCHANGED thrown
    /\ UNCHANGED analyzers
    /\ UNCHANGED <<moduleVars, otherVars>>

\* runScan(url, options) up to the await: validation, normalisation, the fresh
\* results object and the launch of the enabled analyzers' tasks
RunScan(input, options) ==
    /\ pc = "idle"
    /\ url' = input
    /\ IF UrlMissing(input)
       THEN /\ pc' = "thrown"
            /\ thrown' = "Valid URL is required for scanning"
            /\ config' = MergeConfig(options)
            /\ UNCHANGED <<tasks, results>>
       ELSE IF ~normalizeUrl(input).ok
       THEN /\ pc' = "thrown"
            /\ thrown' = normalizeUrl(input).error
            /\ config' = MergeConfig(options)
            /\ UNCHANGED <<tasks, results>>
       ELSE /\ pc' = "awaiting"
            /\ config' = MergeConfig(options)
            /\ results' = NewReport(normalizeUrl(input).href)
            /\ tasks' = [c \in CategorySet |->
                            IF c \in Launched(MergeConfig(options)) THEN PendingTask ELSE NoTask]
            /\ UNCHANGED thrown
    /\ UNCHANGED analyzers
    /\ UNCHANGED <<moduleVars, otherVars>>

\* the analyzer task of one category settles
Settle(cat) ==
    /\ pc = "awaiting"
    /\ tasks[cat].status = "pending"
    /\ \E outcome \in ScanOutcomes(cat, tasks) :
          tasks' = [tasks EXCEPT ![cat] = runSingleScan(cat, outcome)]
    /\ UNCHANGED <<analyzers, pc, url, config, results, thrown>>
    /\ UNCHANGED <<moduleVars, otherVars>>

\* a runScan whose result processing is not wrapped in try/catch
ResumeWithoutCatch ==
    /\ pc = "awaiting"
    /\ allSettled(tasks, config)
    /\ LET gen == generateSummary(ProcessResults(results, config, tasks))
       IN  /\ results' = gen.results
           /\ pc' = IF gen.threw THEN "thrown" ELSE "returned"
           /\ thrown' = IF gen.threw THEN "findings.forEach is not a function" ELSE thrown
    /\ UNCHANGED <<analyzers, url, config, tasks>>
    /\ UNCHANGED <<moduleVars, otherVars>>

\* runScan from the resolution of the join to its return: result processing,
\* generateSummary and the catch block
Resume ==
    /\ pc = "awaiting"
    /\ allSettled(tasks, config)
    /\ LET gen == generateSummary(ProcessResults(results, config, tasks))
       IN  results' =
             IF gen.threw
             THEN [gen.results EXCEPT !.errors =
                     Append(@, [category |-> "General",
                                error |-> "findings.forEach is not a function"])]
             ELSE gen.results
    /\ pc' = "returned"
    /\ UNCHANGED <<analyzers, url, config, tasks, thrown>>
    /\ UNCHANGED <<moduleVars, otherVars>>

Next ==
    \/ \E input \in UrlInputs, options \in OptionObjects : RunScan(input, options)
    \/ \E cat \in CategorySet : Settle(cat)
    \/ Resume

Spec == Init /\ [][Next]_vars

(***************************************************************************)
(* generateSummary applied to bounded families of reports: a report is     *)
(* filled finding by finding and then handed to generateSummary.           *)
(***************************************************************************)
\* results[category].push(finding)
AppendTo(res, category, finding) == [res EXCEPT !.lists[category] = Append(@, finding)]

TotalFindings(res) ==
    Len(res.lists["security"]) + Len(res.lists["advancedSecurity"])
        + Len(res.lists["performance"]) + Len(res.lists["seo"])
        + Len(res.lists["accessibility"])

\* findings as the score aggregation sees them: any severity the category's
\* checks assign, or none
ScoreFindings(category) ==
    {Finding("Check", sev, category \o " check", NoRecommendation) :
        sev \in SeveritiesOf(category) \cup {NoSeverity}}

SharedRecommendation == "Verify URL and server availability"

\* findings as the recommendation selection sees them: high with a text of its
\* own, high with a text other findings carry too, or low
RecommendationFindings(res, category) ==
    LET own == "Fix " \o category \o " issue " \o ToString(Len(res.lists[category]) + 1)
    IN  {Finding("Check", "high", category \o " check", own),
         Finding("Connection", "high", "Unable to fetch website", SharedRecommendation),
         Finding("Check", "low", category \o " check", own)}

RECURSIVE Repeat(_, _)
Repeat(finding, n) == IF n = 0 THEN <<>> ELSE Append(Repeat(finding, n - 1), finding)

InitAggregation ==
    /\ analyzers = "shipped"
    /\ pc = "filling"
    /\ url = UrlString("https://", "example.com", "")
    /\ config = DefaultConfig
    /\ tasks = [c \in CategorySet |-> NoTask]
    /\ results = NewReport("https://example.com/")
    /\ thrown = ""
    /\ ModulesIdle

\* a category receives one more finding of any severity
AddScoreFinding(category) ==
    /\ pc = "filling"
    /\ TotalFindings(results) < MaxBaseFindings
    /\ \E f \in ScoreFindings(category) : results' = AppendTo(results, category, f)
    /\ UNCHANGED <<analyzers, pc, url, config, tasks, thrown>>
    /\ UNCHANGED <<moduleVars, otherVars>>

\* a category receives a run of equal findings
AddRun(category) ==
    /\ pc = "filling"
    /\ \E f \in ScoreFindings(category), n \in 1..MaxRun :
          results' = [results EXCEPT !.lists[category] = @ \o Repeat(f, n)]
    /\ pc' = "filled"
    /\ UNCHANGED <<analyzers, url, config, tasks, thrown>>
    /\ UNCHANGED <<moduleVars, otherVars>>

\* a category receives one more finding with a recommendation
AddRecommendationFinding(category) ==
    /\ pc = "filling"
    /\ TotalFindings(results) < MaxReportFindings
    /\ \E f \in RecommendationFindings(results, category) :
          results' = AppendTo(results, category, f)
    /\ UNCHANGED <<analyzers, pc, url, config, tasks, thrown>>
    /\ UNCHANGED <<moduleVars, otherVars>>

\* this.generateSummary(results)
Summarize ==
    /\ pc \in {"filling", "filled"}
    /\ results' = generateSummary(results).results
    /\ pc' = "summarized"
    /\ UNCHANGED <<analyzers, url, config, tasks, thrown>>
    /\ UNCHANGED <<moduleVars, otherVars>>

NextScore ==
    \/ \E category \in CategorySet : AddScoreFinding(category)
    \/ \E category \in CategorySet : AddRun(category)
    \/ Summarize

SpecScore == InitAggregation /\ [][NextScore]_vars

NextRecommendations ==
    \/ \E category \in CategorySet : AddRecommendationFinding(category)
    \/ Summarize

SpecRecommendations == InitAggregation /\ [][NextRecommendations]_vars

(***************************************************************************)
(* runScan up to the await, over a wider family of URL inputs: paths, and  *)
(* a host that is one word with hyphens.                                   *)
(***************************************************************************)
WideHosts == {"example.com", "exa mple", "not-a-valid-url"}

WidePaths == {"", "/path"}

\* an empty host comes with an empty path only ('http://', 'https://', '')
WideUrlInputs ==
    UrlInputs \cup {UrlString(s, h, p) : s \in Schemes, h \in WideHosts, p \in WidePaths}

NextUrl == \E input \in WideUrlInputs, options \in OptionObjects : RunScan(input, options)

SpecUrl == Init /\ [][NextUrl]_vars

(***************************************************************************)
(* getInfo called at any moment of a runScan invocation.                   *)
(***************************************************************************)
\* scanner.getInfo()
GetInfo ==
    /\ info' = getInfo
    /\ UNCHANGED <<runScanVars, advanced, performance, security, otherVars>>

InfoInputs == {NonString, UrlString("", "example.com", "")}

NextInfo ==
    \/ \E input \in InfoInputs, options \in OptionObjects : RunScan(input, options)
    \/ \E cat \in CategorySet : Settle(cat)
    \/ Resume
    \/ GetInfo

SpecInfo == Init /\ [][NextInfo]_vars

(***************************************************************************)
(* AdvancedSecurityScanner.scan as a state machine.                        *)
(***************************************************************************)
\* the finding of scan's own catch block
AdvancedScanError ==
    AdvancedFinding("Advanced Scan Error", "medium", "Advanced security scan error", "")

\* the body the target answers a probe with: the payload as sent, or not
ResponseData(reflection, payload) == IF reflection = "verbatim" THEN payload ELSE ""

\* testResponse.data && testResponse.data.includes(payload)
DataIncludes(data, payload) == data # "" /\ data = payload

\* the probing loop has an iteration for the scanned URL
ProbeRuns(p, query) == "" \in p.params \/ query \in p.params

\* the response of the probe satisfies the condition of its findings.push
Matches(p, a) ==
    IF p.kind = "xss"
    THEN DataIncludes(ResponseData(a.reflection, p.payload), p.payload)
    ELSE a.vulnerable

\* a finding that does not say which payload came back
ProbeFindingWithoutEvidence(category, p) == AdvancedFinding(category, p.severity, p.issue, "")

\* the finding a probe pushes
ProbeFinding(category, p) == AdvancedFinding(category, p.severity, p.issue, p.payload)

\* the catch block of one probe: nothing, or the finding it reports
ProbeCatch(a, r, p) ==
    [a EXCEPT !.probeFailures = @ + 1,
              !.findings = IF p.failure # ""
                           THEN Append(@, AdvancedFinding(r.category, "medium", p.failure, ""))
                           ELSE @]

\* a scan that starts the routine after this one without awaiting this one
NextRoutineWithoutAwait(a) ==
    IF a.routine = Len(Routines)
    THEN [a EXCEPT !.pc = "done"]
    ELSE [a EXCEPT !.routine = @ + 1, !.probe = 1]

\* scan goes on with the routine after this one, or ends
NextRoutine(a) ==
    IF a.routine = Len(Routines)
    THEN [a EXCEPT !.pc = "done", !.returned = @ \cup {a.routine}]
    ELSE [a EXCEPT !.returned = @ \cup {a.routine}, !.routine = @ + 1, !.probe = 1]

\* a routine without a try/catch of its own: the exception ends scan in its catch block
RoutineRethrow(a) ==
    [a EXCEPT !.pc = "done", !.threw = @ \cup {a.routine},
              !.findings = Append(@, AdvancedScanError)]

\* the catch block of a routine, and its return
RoutineCatch(a) ==
    LET r == Routines[a.routine]
    IN  NextRoutine([a EXCEPT !.threw = @ \cup {a.routine},
                              !.findings = Append(@, AdvancedFinding(r.category, "low",
                                                                     r.error, ""))])

\* scan(url) up to the first routine: the initial fetch
AdvancedStart(query, reflection, vulnerable, fetch) ==
    /\ advanced.pc = "idle"
    /\ advanced' =
          IF fetch = "data"
          THEN [advanced EXCEPT !.pc = "running", !.fetch = fetch, !.query = query,
                                !.reflection = reflection, !.vulnerable = vulnerable]
          ELSE [advanced EXCEPT !.pc = "done", !.fetch = fetch, !.query = query,
                                !.reflection = reflection, !.vulnerable = vulnerable,
                                !.findings = <<AdvancedScanError>>]
    /\ UNCHANGED <<runScanVars, info, performance, security, otherVars>>

\* one probe of the current routine: it is skipped, answered, or it throws
AdvancedProbe ==
    /\ advanced.pc = "running"
    /\ advanced.probe <= Len(Routines[advanced.routine].probes)
    /\ LET r == Routines[advanced.routine]
           p == r.probes[advanced.probe]
           next == [advanced EXCEPT !.probe = @ + 1]
       IN  IF ~ProbeRuns(p, advanced.query)
           THEN advanced' = next
           ELSE \/ advanced' =
                     IF Matches(p, advanced)
                     THEN [next EXCEPT !.findings = Append(@, ProbeFinding(r.category, p))]
                     ELSE next
                \/ /\ advanced.probeFailures < MaxProbeFailures
                   /\ advanced' = ProbeCatch(next, r, p)
    /\ UNCHANGED <<runScanVars, info, performance, security, otherVars>>

\* the current routine returns its findings to scan
AdvancedRoutineReturn ==
    /\ advanced.pc = "running"
    /\ advanced.probe > Len(Routines[advanced.routine].probes)
    /\ advanced' = NextRoutine(advanced)
    /\ UNCHANGED <<runScanVars, info, performance, security, otherVars>>

\* code of the current routine outside its probes throws
AdvancedRoutineException ==
    /\ advanced.pc = "running"
    /\ Cardinality(advanced.threw) < MaxRoutineExceptions
    /\ advanced' = RoutineCatch(advanced)
    /\ UNCHANGED <<runScanVars, info, performance, security, otherVars>>

\* no runScan invocation; the analyzers are the shipped ones
InitAnalyzer ==
    /\ analyzers = "shipped"
    /\ pc = "idle"
    /\ url = NonString
    /\ config = DefaultConfig
    /\ tasks = [c \in CategorySet |-> NoTask]
    /\ results = NewReport("")
    /\ thrown = ""
    /\ ModulesIdle

NextAdvanced ==
    \/ \E query \in QueryParams, reflection \in {"verbatim", "escaped"},
          vulnerable \in BOOLEAN, fetch \in FetchOutcomes :
            AdvancedStart(query, reflection, vulnerable, fetch)
    \/ AdvancedProbe
    \/ AdvancedRoutineReturn
    \/ AdvancedRoutineException

SpecAdvanced == InitAnalyzer /\ [][NextAdvanced]_vars

(***************************************************************************)
(* The Performance Analyzer: PerformanceScanner.scan and the headless      *)
(* browser of runBrowserPerformanceTest.                                   *)
(***************************************************************************)
\* the awaited calls of runBrowserPerformanceTest, in order
BrowserSteps == <<"launch", "newPage", "setCacheEnabled", "goto", "metrics", "evaluate", "close">>

\* what the browser measures: load time and first contentful paint in ms, heap in MB
LoadTimes == {1000, 3000, 6000}

Paints == {1000, 3000}

Heaps == {10, 60}

\* the finding of the catch block around runBrowserPerformanceTest
BrowserUnavailable ==
    Finding("Browser Performance", "low", "Browser performance test unavailable",
            "Install Chrome/Chromium for detailed performance metrics")

\* the findings runBrowserPerformanceTest derives from its measurements
BrowserFindings(loadTime, firstContentfulPaint, heap) ==
    (IF loadTime > 5000
     THEN <<Finding("Page Load Performance", "high", "Slow page load",
                    "Optimize resources, enable caching, and reduce page complexity")>>
     ELSE <<>>)
    \o (IF firstContentfulPaint > 2500
        THEN <<Finding("Page Load Performance", "medium", "Slow First Contentful Paint",
                       "Optimize critical rendering path and reduce render-blocking resources")>>
        ELSE <<>>)
    \o (IF heap > 50
        THEN <<Finding("Memory Usage", "medium", "High memory usage",
                       "Optimize JavaScript code and reduce memory leaks")>>
        ELSE <<>>)
    \o (IF loadTime < 2000
        THEN <<Finding("Page Load Performance", "info", "Good page load time",
                       "Page loads quickly, maintain current performance")>>
        ELSE <<>>)

\* a scan whose browser test is not wrapped in a try/catch of its own
BrowserFailureUncaught(perf, step) ==
    [perf EXCEPT !.pc = "done", !.failed = step,
                 !.findings = Append(@, ScanErrorFinding("performance"))]

\* a call of runBrowserPerformanceTest throws: its catch rethrows, and the
\* catch block of scan around the test pushes one finding
BrowserFailure(perf, step) ==
    [perf EXCEPT !.pc = "done", !.failed = step,
                 !.findings = Append(@, BrowserUnavailable)]

\* a call of runBrowserPerformanceTest returns
BrowserStepDone(perf, step, loadTime, firstContentfulPaint, heap) ==
    CASE step = "launch" -> [perf EXCEPT !.step = @ + 1, !.browser = "open"]
      [] step = "goto" -> [perf EXCEPT !.step = @ + 1, !.loadTime = loadTime]
      [] step = "metrics" -> [perf EXCEPT !.step = @ + 1, !.heap = heap]
      [] step = "evaluate" ->
            [perf EXCEPT !.step = @ + 1, !.firstContentfulPaint = firstContentfulPaint]
      [] step = "close" -> [perf EXCEPT !.step = @ + 1, !.browser = "closed"]
      [] OTHER -> [perf EXCEPT !.step = @ + 1]

\* scan(url) up to the browser test: the fetch and the eight page analyses
PerformanceStart(fetch, found, analysisThrows) ==
    /\ performance.pc = "idle"
    /\ performance' =
          IF fetch = "throws"
          THEN [performance EXCEPT !.pc = "done", !.fetch = fetch,
                                   !.findings = <<ScanErrorFinding("performance")>>]
          ELSE IF fetch = "nodata"
          THEN [performance EXCEPT !.pc = "done", !.fetch = fetch,
                                   !.findings = <<ConnectionFinding("performance")>>]
          ELSE IF analysisThrows
          THEN [performance EXCEPT !.pc = "done", !.fetch = fetch, !.page = found,
                                   !.findings = Append(found, ScanErrorFinding("performance"))]
          ELSE [performance EXCEPT !.pc = "browser", !.fetch = fetch, !.page = found,
                                   !.findings = found]
    /\ UNCHANGED <<runScanVars, info, advanced, security, otherVars>>

\* the next awaited call of runBrowserPerformanceTest returns or throws
PerformanceBrowserStep ==
    /\ performance.pc = "browser"
    /\ performance.step <= Len(BrowserSteps)
    /\ LET step == BrowserSteps[performance.step]
       IN  \/ \E loadTime \in LoadTimes, firstContentfulPaint \in Paints, heap \in Heaps :
                 performance' = BrowserStepDone(performance, step, loadTime,
                                                firstContentfulPaint, heap)
           \/ performance' = BrowserFailure(performance, step)
    /\ UNCHANGED <<runScanVars, info, advanced, security, otherVars>>

\* runBrowserPerformanceTest analyses its measurements and returns; scan returns
PerformanceReturn ==
    /\ performance.pc = "browser"
    /\ performance.step > Len(BrowserSteps)
    /\ performance' =
          [performance EXCEPT !.pc = "done",
                              !.findings = @ \o BrowserFindings(performance.loadTime,
                                                                performance.firstContentfulPaint,
                                                                performance.heap)]
    /\ UNCHANGED <<runScanVars, info, advanced, security, otherVars>>

NextPerformance ==
    \/ \E fetch \in FetchOutcomes,
          found \in SeqsUpTo(CheckFindings("performance"), MaxFindings),
          analysisThrows \in BOOLEAN :
            PerformanceStart(fetch, found, analysisThrows)
    \/ PerformanceBrowserStep
    \/ PerformanceReturn

SpecPerformance == InitAnalyzer /\ [][NextPerformance]_vars

(***************************************************************************)
(* The baseline Security Analyzer: SecurityScanner.scan, its header check  *)
(* and its HTTPS check. The headers of a response are a function from the  *)
(* names present to their values.                                          *)
(***************************************************************************)
securityHeaders ==
    <<"strict-transport-security", "content-security-policy", "x-frame-options",
      "x-content-type-options", "x-xss-protection", "referrer-policy", "permissions-policy">>

getHeaderSeverity(header) ==
    IF header \in {"content-security-policy", "strict-transport-security"}
    THEN "high"
    ELSE "medium"

getHeaderRecommendation(header) ==
    CASE header = "strict-transport-security" ->
            "Add HSTS header: Strict-Transport-Security: max-age=31536000; includeSubDomains"
      [] header = "content-security-policy" -> "Implement CSP header to prevent XSS attacks"
      [] header = "x-frame-options" -> "Add X-Frame-Options: DENY or SAMEORIGIN"
      [] header = "x-content-type-options" -> "Add X-Content-Type-Options: nosniff"
      [] header = "x-xss-protection" -> "Add X-XSS-Protection: 1; mode=block"
      [] header = "referrer-policy" -> "Add Referrer-Policy: strict-origin-when-cross-origin"
      [] header = "permissions-policy" -> "Add Permissions-Policy to control browser features"
      [] OTHER -> "Implement " \o header \o " security header"

MissingHeaderFinding(header) ==
    Finding("Security Headers", getHeaderSeverity(header), "Missing " \o header \o " header",
            getHeaderRecommendation(header))

\* this.securityHeaders.forEach from the given position on
RECURSIVE MissingFrom(_, _, _)
MissingFrom(headers, list, k) ==
    IF k > Len(list)
    THEN <<>>
    ELSE (IF list[k] \notin DOMAIN headers THEN <<MissingHeaderFinding(list[k])>> ELSE <<>>)
            \o MissingFrom(headers, list, k + 1)

InsecureFrameOptions(headers) ==
    IF "x-frame-options" \in DOMAIN headers /\ headers["x-frame-options"] = "ALLOWALL"
    THEN <<Finding("Security Headers", "high", "Insecure X-Frame-Options",
                   "Set X-Frame-Options to DENY or SAMEORIGIN")>>
    ELSE <<>>

\* a header check that looks for the headers of high severity only
checkSecurityHeadersOfHighSeverity(headers) ==
    MissingFrom(headers, SelectSeq(securityHeaders, LAMBDA h : getHeaderSeverity(h) = "high"), 1)
        \o InsecureFrameOptions(headers)

checkSecurityHeaders(headers) ==
    MissingFrom(headers, securityHeaders, 1) \o InsecureFrameOptions(headers)

\* URLUtils.isSecure(url)
isSecure(scheme) == scheme = "https://"

checkHTTPS(scheme, headers) ==
    (IF ~isSecure(scheme)
     THEN <<Finding("Transport Security", "high", "HTTP instead of HTTPS",
                    "Implement SSL/TLS certificate and redirect HTTP to HTTPS")>>
     ELSE <<>>)
    \o (IF isSecure(scheme) /\ "strict-transport-security" \notin DOMAIN headers
        THEN <<Finding("Transport Security", "medium", "Missing HSTS header",
                       "Add Strict-Transport-Security header with appropriate max-age")>>
        ELSE <<>>)

\* the responses a target may give: any subset of the security headers, with
\* X-Frame-Options set to DENY or to ALLOWALL and a Content-Security-Policy
\* with or without a frame-ancestors directive
HeaderValues(header) ==
    CASE header = "x-frame-options" -> {"DENY", "ALLOWALL"}
      [] header = "content-security-policy" -> {"set", "frame-ancestors"}
      [] OTHER -> {"set"}

ResponseHeaders ==
    UNION {{h \in [present -> {"DENY", "ALLOWALL", "set", "frame-ancestors"}] :
                \A name \in present : h[name] \in HeaderValues(name)} :
           present \in SUBSET {securityHeaders[k] : k \in 1..Len(securityHeaders)}}

\* csp?.includes('frame-ancestors')
HasFrameAncestors(headers) ==
    /\ "content-security-policy" \in DOMAIN headers
    /\ headers["content-security-policy"] = "frame-ancestors"

checkClickjacking(headers) ==
    IF "x-frame-options" \notin DOMAIN headers /\ ~HasFrameAncestors(headers)
    THEN <<Finding("Clickjacking", "medium", "No clickjacking protection",
                   "Add X-Frame-Options or CSP frame-ancestors directive")>>
    ELSE <<>>

\* the position, among the ten checks of scan, of a check that may throw: the
\* checks that read the page (3, 4, 5, 7, 8, 10) and the cookie check (6),
\* which throws when Set-Cookie is a single string; 0 for no exception
ThrowingChecks == {3, 4, 5, 6, 7, 8, 10}

\* scan(url): the fetch, the ten checks in the order of the code, inside one
\* try block, and the return. found: what the checks 3 to 8 that ran have
\* found; thrownAt: the check that throws, or 0
SecurityScan(scheme, headers, fetch, found, thrownAt) ==
    /\ security.pc = "idle"
    /\ thrownAt = 3 => found = <<>>
    /\ security' =
          [pc |-> "done", scheme |-> scheme, headers |-> headers, fetch |-> fetch,
           thrownAt |-> IF fetch = "data" THEN thrownAt ELSE 0,
           findings |->
              IF fetch = "throws"
              THEN <<ScanErrorFinding("security")>>
              ELSE IF fetch = "nodata"
              THEN <<ConnectionFinding("security")>>
              ELSE checkSecurityHeaders(headers) \o checkHTTPS(scheme, headers) \o found
                      \o (IF thrownAt \in {0, 10} THEN checkClickjacking(headers) ELSE <<>>)
                      \o (IF thrownAt # 0 THEN <<ScanErrorFinding("security")>> ELSE <<>>)]
    /\ UNCHANGED <<runScanVars, info, advanced, performance, otherVars>>

NextSecurity ==
    /\ security.pc = "idle"
    /\ \E scheme \in {"http://", "https://"}, headers \in ResponseHeaders,
          fetch \in FetchOutcomes, found \in SeqsUpTo(CheckFindings("security"), MaxFindings),
          thrownAt \in ThrowingChecks \cup {0} :
            SecurityScan(scheme, headers, fetch, found, thrownAt)

SpecSecurity == InitAnalyzer /\ [][NextSecurity]_vars

(***************************************************************************)
(* scanInsecureDesign: the rate-limiting check.                            *)
(***************************************************************************)
\* the number of identical requests of the burst
BurstSize == 5

Rejected == [settled |-> "rejected"]

Fulfilled(status, headers) == [settled |-> "fulfilled", status |-> status, headers |-> headers]

\* what one request of the burst may settle to: a status with or without a
\* rate-limit header, or a rejection
BurstResponses ==
    {Fulfilled(status, {}) : status \in {200, 404, 429, 503}}
       \cup {Fulfilled(200, {h}) : h \in {"x-ratelimit-remaining", "retry-after"}}
       \cup {Rejected}

\* responses.filter(r => r.status === 'fulfilled'), whatever the status
fulfilledResponses(responses) ==
    {i \in DOMAIN responses : responses[i].settled = "fulfilled"}

\* responses.filter(r => r.status === 'fulfilled' && r.value.status === 200)
successfulResponses(responses) ==
    {i \in DOMAIN responses :
        responses[i].settled = "fulfilled" /\ responses[i].status = 200}

hasRateLimiting(responses) ==
    \E i \in DOMAIN responses :
        /\ responses[i].settled = "fulfilled"
        /\ \/ responses[i].status = 429
           \/ responses[i].status = 503
           \/ responses[i].headers \cap {"x-ratelimit-remaining", "retry-after"} # {}

MissingRateLimiting ==
    Finding("Insecure Design", "low", "Missing rate limiting",
            "Implement rate limiting to prevent abuse and DoS attacks")

rateLimitTest(responses) ==
    IF Cardinality(successfulResponses(responses)) >= 4 /\ ~hasRateLimiting(responses)
    THEN <<MissingRateLimiting>>
    ELSE <<>>

\* the burst has settled and the check has looked at it
RateLimitCheck(responses) ==
    /\ routine.pc = "idle"
    /\ routine' = [pc |-> "done", check |-> "rateLimit", responses |-> responses,
                   findings |-> rateLimitTest(responses)]
    /\ UNCHANGED <<runScanVars, moduleVars, concurrent, controller>>

NextRateLimit ==
    /\ routine.pc = "idle"
    /\ \E responses \in [1..BurstSize -> BurstResponses] : RateLimitCheck(responses)

SpecRateLimit == InitAnalyzer /\ [][NextRateLimit]_vars

(***************************************************************************)
(* scanVulnerableComponents: the library versions of the script sources.   *)
(***************************************************************************)
MaxScripts == 2

\* a version is major.minor.patch; a key of the vulnerability table is the
\* text of two versions with a hyphen between them; the regular expression
\* captures the text of one version
VersionText(version) == <<version>>

RangeText(from, to) == <<from, "-", to>>

\* loadVulnerabilityDB().javascript: library -> the keys of its entry
vulnerabilityDatabase ==
    [jquery  |-> {RangeText(<<1, 0, 0>>, <<3, 6, 3>>), RangeText(<<1, 0, 0>>, <<1, 11, 3>>)},
     lodash  |-> {RangeText(<<4, 0, 0>>, <<4, 17, 20>>)},
     angular |-> {RangeText(<<1, 0, 0>>, <<1, 7, 8>>)}]

libraryPatterns == {"jquery", "angular", "react", "bootstrap", "lodash"}

ScriptVersions ==
    {<<1, 4, 2>>, <<1, 7, 8>>, <<3, 5, 1>>, <<3, 7, 0>>, <<4, 17, 20>>, <<4, 17, 21>>}

\* the src attributes of the page's scripts: <lib>-<version>.min.js, or a
\* file that names no library
NoLibrary == [lib |-> "", version |-> <<0, 0, 0>>]

ScriptSources ==
    {[lib |-> lib, version |-> v] : lib \in libraryPatterns, v \in ScriptVersions}
       \cup {NoLibrary}

\* vulnerabilityDatabase.javascript[lib] && vulnerabilityDatabase.javascript[lib][version]
KnownVulnerable(lib, version) ==
    /\ lib \in DOMAIN vulnerabilityDatabase
    /\ VersionText(version) \in vulnerabilityDatabase[lib]

VulnerableLibrary(src) ==
    [category |-> "Vulnerable Components", severity |-> "high",
     issue |-> <<"Vulnerable", src.lib, "Library">>,
     description |-> <<src.lib, src.version, "has known vulnerabilities">>,
     evidence |-> src]

\* /jquery-1\.[0-6]/ on the markup, which holds the src attributes
FirstDigit(n) == IF n < 10 THEN n ELSE n \div 10

VeryOldJQuery(src) ==
    src.lib = "jquery" /\ src.version[1] = 1 /\ FirstDigit(src.version[2]) \in 0..6

OutdatedLibrary ==
    [category |-> "Vulnerable Components", severity |-> "medium",
     issue |-> <<"Outdated JavaScript Library">>,
     description |-> <<"Very old jQuery version detected">>,
     evidence |-> NoLibrary]

RECURSIVE LibraryFindings(_)
LibraryFindings(scripts) ==
    IF scripts = <<>>
    THEN <<>>
    ELSE (IF scripts[1].lib \in libraryPatterns
             /\ KnownVulnerable(scripts[1].lib, scripts[1].version)
          THEN <<VulnerableLibrary(scripts[1])>>
          ELSE <<>>) \o LibraryFindings(Tail(scripts))

scanVulnerableComponents(scripts) ==
    LibraryFindings(scripts)
       \o (IF \E i \in DOMAIN scripts : VeryOldJQuery(scripts[i])
           THEN <<OutdatedLibrary>>
           ELSE <<>>)

ComponentsScan(scripts) ==
    /\ routine.pc = "idle"
    /\ routine' = [pc |-> "done", check |-> "components", scripts |-> scripts,
                   findings |-> scanVulnerableComponents(scripts)]
    /\ UNCHANGED <<runScanVars, moduleVars, concurrent, controller>>

NextComponents ==
    /\ routine.pc = "idle"
    /\ \E scripts \in SeqsUpTo(ScriptSources, MaxScripts) : ComponentsScan(scripts)

SpecComponents == InitAnalyzer /\ [][NextComponents]_vars

(***************************************************************************)
(* scanSecurityMisconfiguration: the security headers it looks for.        *)
(***************************************************************************)
\* Object.entries(securityHeaders) of the routine: header and severity
misconfigurationHeaders ==
    <<[header |-> "strict-transport-security", severity |-> "medium"],
      [header |-> "content-security-policy", severity |-> "medium"],
      [header |-> "x-frame-options", severity |-> "medium"],
      [header |-> "x-content-type-options", severity |-> "low"],
      [header |-> "x-xss-protection", severity |-> "low"],
      [header |-> "referrer-policy", severity |-> "low"]>>

MissingSecurityHeader(entry) ==
    [category |-> "Security Misconfiguration", severity |-> entry.severity,
     issue |-> "Missing security header: " \o entry.header]

RECURSIVE MisconfiguredFrom(_, _)
MisconfiguredFrom(headers, k) ==
    IF k > Len(misconfigurationHeaders)
    THEN <<>>
    ELSE (IF misconfigurationHeaders[k].header \notin DOMAIN headers
          THEN <<MissingSecurityHeader(misconfigurationHeaders[k])>>
          ELSE <<>>) \o MisconfiguredFrom(headers, k + 1)

MisconfigurationScan(headers) ==
    /\ routine.pc = "idle"
    /\ routine' = [pc |-> "done", check |-> "misconfiguration", headers |-> headers,
                   findings |-> MisconfiguredFrom(headers, 1)]
    /\ UNCHANGED <<runScanVars, moduleVars, concurrent, controller>>

NextMisconfiguration ==
    /\ routine.pc = "idle"
    /\ \E headers \in ResponseHeaders : MisconfigurationScan(headers)

SpecMisconfiguration == InitAnalyzer /\ [][NextMisconfiguration]_vars

(***************************************************************************)
(* scanInsecureDesign: the sequential-identifier check.                    *)
(***************************************************************************)
MaxId == 7

MaxRepeat == 2

\* sequentialIds.length >= 10
MinimumIds == 10

\* the numbers the patterns capture from the links of a page, in document
\* order: every number of 0..MaxId up to MaxRepeat times, the larger first
RECURSIVE Repeated(_, _)
Repeated(id, n) == IF n = 0 THEN <<>> ELSE <<id>> \o Repeated(id, n - 1)

RECURSIVE Captured(_, _)
Captured(count, id) ==
    IF id < 0 THEN <<>> ELSE Repeated(id, count[id]) \o Captured(count, id - 1)

LinkNumbers == {Captured(count, MaxId) : count \in [0..MaxId -> 0..MaxRepeat]}

\* !isNaN(id) && id > 0 && id < 1000000
Reasonable(numbers) == SelectSeq(numbers, LAMBDA id : id > 0 /\ id < 1000000)

\* sequentialIds.sort((a, b) => a - b)
RECURSIVE InsertSorted(_, _)
InsertSorted(sorted, id) ==
    IF sorted = <<>> THEN <<id>>
    ELSE IF id <= Head(sorted) THEN <<id>> \o sorted
    ELSE <<Head(sorted)>> \o InsertSorted(Tail(sorted), id)

RECURSIVE SortAscending(_)
SortAscending(ids) ==
    IF ids = <<>> THEN <<>> ELSE InsertSorted(SortAscending(Tail(ids)), Head(ids))

\* a count of every adjacent pair, whatever its members
AdjacentCount(ids) == Len(ids) - 1

\* the loop over i = 1 .. length - 1
SequentialCount(ids) ==
    Cardinality({i \in 2..Len(ids) : ids[i] = ids[i - 1] + 1})

SequentialIdentifiers(sequential) ==
    [category |-> "Insecure Design", severity |-> "low",
     issue |-> "Sequential identifier usage detected", cases |-> sequential]

sequentialIdCheck(sequentialIds) ==
    IF Len(sequentialIds) >= MinimumIds
          /\ 2 * SequentialCount(SortAscending(sequentialIds)) > Len(sequentialIds)
    THEN <<SequentialIdentifiers(SequentialCount(SortAscending(sequentialIds)))>>
    ELSE <<>>

SequentialIdScan(numbers) ==
    /\ routine.pc = "idle"
    /\ routine' = [pc |-> "done", check |-> "sequentialIds", ids |-> Reasonable(numbers),
                   findings |-> sequentialIdCheck(Reasonable(numbers))]
    /\ UNCHANGED <<runScanVars, moduleVars, concurrent, controller>>

NextSequentialIds ==
    /\ routine.pc = "idle"
    /\ \E numbers \in LinkNumbers : SequentialIdScan(numbers)

SpecSequentialIds == InitAnalyzer /\ [][NextSequentialIds]_vars

(***************************************************************************)
(* Two runScan invocations in flight on one WebsiteScanner.                *)
(***************************************************************************)
\* a results object kept on the instance: every invocation uses the same one
ResultsObjectOfInstance(k) == 1

\* const results = { ... }: an object of the invocation
ResultsObject(k) == k

ConcurrentUrls ==
    {NonString, UrlString("https://", "example.com", ""), UrlString("http://", "example.com", "")}

\* the options of a caller: performance only, or accessibility only
ConcurrentOptions ==
    {[security |-> FALSE, seo |-> FALSE, accessibility |-> FALSE],
     [security |-> FALSE, performance |-> FALSE, seo |-> FALSE]}

\* runScan from the resolution of the join to its return, as a function of the
\* results object, the config and the settled tasks
Processed(res, cfg, ts) ==
    LET gen == generateSummary(ProcessResults(res, cfg, ts))
    IN  IF gen.threw
        THEN [gen.results EXCEPT !.errors =
                Append(@, [category |-> "General",
                           error |-> "findings.forEach is not a function"])]
        ELSE gen.results

ConcurrentRunScan(k, input, options) ==
    /\ concurrent.calls[k].pc = "idle"
    /\ concurrent' =
          IF UrlMissing(input)
          THEN [concurrent EXCEPT
                  !.calls[k] = [@ EXCEPT !.pc = "thrown", !.url = input,
                                         !.config = MergeConfig(options),
                                         !.thrown = "Valid URL is required for scanning"]]
          ELSE IF ~normalizeUrl(input).ok
          THEN [concurrent EXCEPT
                  !.calls[k] = [@ EXCEPT !.pc = "thrown", !.url = input,
                                         !.config = MergeConfig(options),
                                         !.thrown = normalizeUrl(input).error]]
          ELSE [concurrent EXCEPT
                  !.calls[k] = [@ EXCEPT !.pc = "awaiting", !.url = input,
                                         !.config = MergeConfig(options),
                                         !.tasks = [c \in CategorySet |->
                                                      IF c \in Launched(MergeConfig(options))
                                                      THEN PendingTask ELSE NoTask]],
                  !.objects = (ResultsObject(k) :> NewReport(normalizeUrl(input).href)) @@ @]
    /\ UNCHANGED <<runScanVars, moduleVars, routine, controller>>

ConcurrentSettle(k, cat) ==
    /\ concurrent.calls[k].pc = "awaiting"
    /\ concurrent.calls[k].tasks[cat].status = "pending"
    /\ \E outcome \in ScanOutcomes(cat, concurrent.calls[k].tasks) :
          concurrent' = [concurrent EXCEPT !.calls[k].tasks[cat] = runSingleScan(cat, outcome)]
    /\ UNCHANGED <<runScanVars, moduleVars, routine, controller>>

ConcurrentResume(k) ==
    /\ concurrent.calls[k].pc = "awaiting"
    /\ allSettled(concurrent.calls[k].tasks, concurrent.calls[k].config)
    /\ concurrent' =
          [concurrent EXCEPT
             !.calls[k].pc = "returned",
             !.objects[ResultsObject(k)] =
                 Processed(@, concurrent.calls[k].config, concurrent.calls[k].tasks)]
    /\ UNCHANGED <<runScanVars, moduleVars, routine, controller>>

NextConcurrent ==
    \/ \E k \in 1..2, input \in ConcurrentUrls, options \in ConcurrentOptions :
          ConcurrentRunScan(k, input, options)
    \/ \E k \in 1..2, cat \in CategorySet : ConcurrentSettle(k, cat)
    \/ \E k \in 1..2 : ConcurrentResume(k)

SpecConcurrent == Init /\ [][NextConcurrent]_vars

(***************************************************************************)
(* The scan controller: POST /api/scan and GET /api/report/:id.            *)
(***************************************************************************)
MaxRequests == 3

\* req.body.url: missing, not an absolute URL, or an absolute URL
ControllerUrls == {"", "example.com", "https://example.com", "http://example.org"}

\* new URL(url) does not throw
AbsoluteUrl(text) == text \in {"https://example.com", "http://example.org"}

\* an id generator that hands out the same id again
SameScanId(counter) == counter

\* scanIdCounter++ : the value of the counter after the statement
IncrementedScanId(counter) == counter + 1

\* scanResults.set(key, value)
MapSet(map, key, value) ==
    IF key \in DOMAIN map THEN [map EXCEPT ![key] = value] ELSE map @@ (key :> value)

Respond(code, body) == [code |-> code, body |-> body]

\* triggerScan(req, res)
TriggerScan(text) ==
    /\ Len(controller.responses) < MaxRequests
    /\ controller' =
          IF text = ""
          THEN [controller EXCEPT !.responses = Append(@, Respond(400, [error |-> "URL is required"]))]
          ELSE IF ~AbsoluteUrl(text)
          THEN [controller EXCEPT
                  !.responses = Append(@, Respond(400, [error |-> "Invalid URL format"]))]
          ELSE [controller EXCEPT
                  !.scanIdCounter = IncrementedScanId(@),
                  !.scanResults =
                      MapSet(@, controller.scanIdCounter,
                             [id |-> controller.scanIdCounter, url |-> text,
                              status |-> "in_progress", result |-> "null", error |-> "null"]),
                  !.responses =
                      Append(@, Respond(202, [scanId |-> controller.scanIdCounter,
                                              status |-> "in_progress", url |-> text]))]
    /\ UNCHANGED <<runScanVars, moduleVars, routine, concurrent>>

\* the scans whose scanWebsite(url) promise has not settled
InFlight == DOMAIN controller.scanResults \ controller.settled

\* the .then callback of a scan
ScanCompleted(scanId) ==
    /\ scanId \in InFlight
    /\ controller' =
          [controller EXCEPT
             !.settled = @ \cup {scanId},
             !.scanResults =
                 MapSet(@, scanId, [controller.scanResults[scanId] EXCEPT
                                      !.status = "completed", !.result = "report"])]
    /\ UNCHANGED <<runScanVars, moduleVars, routine, concurrent>>

\* the .catch callback of a scan
ScanFailed(scanId) ==
    /\ scanId \in InFlight
    /\ controller' =
          [controller EXCEPT
             !.settled = @ \cup {scanId},
             !.scanResults =
                 MapSet(@, scanId, [controller.scanResults[scanId] EXCEPT
                                      !.status = "failed", !.error = "error.message"])]
    /\ UNCHANGED <<runScanVars, moduleVars, routine, concurrent>>

\* getScanReport(req, res); scanId is parseInt(req.params.id), 0 standing for
\* an id that is not a positive number
getScanReport(scanId) ==
    /\ Len(controller.responses) < MaxRequests
    /\ controller' =
          [controller EXCEPT
             !.responses =
                 Append(@, IF scanId <= 0
                           THEN Respond(400, [error |-> "Invalid scan ID"])
                           ELSE IF scanId \notin DOMAIN controller.scanResults
                           THEN Respond(404, [error |-> "Scan not found"])
                           ELSE Respond(200, [scanId |-> controller.scanResults[scanId].id,
                                              status |-> controller.scanResults[scanId].status,
                                              url |-> controller.scanResults[scanId].url]))]
    /\ UNCHANGED <<runScanVars, moduleVars, routine, concurrent>>

NextController ==
    \/ \E text \in ControllerUrls : TriggerScan(text)
    \/ \E scanId \in DOMAIN controller.scanResults : ScanCompleted(scanId)
    \/ \E scanId \in DOMAIN controller.scanResults : ScanFailed(scanId)
    \/ \E scanId \in 0..MaxRequests : getScanReport(scanId)

SpecController == InitAnalyzer /\ [][NextController]_vars

(***************************************************************************)
(* Properties of runScan.                                                  *)
(***************************************************************************)
Settled(c) == tasks[c].status \in {"fulfilled", "rejected"}

ErrorEntries(category) == {i \in 1..Len(results.errors) : results.errors[i].category = category}

\* a list holding exactly the synthetic finding of a failed scan
IsScanFailedList(list) ==
    /\ Len(list) = 1
    /\ list[1].severity = "high"
    /\ list[1].category = "Error"
    /\ list[1].recommendation = "Review network connectivity and target website availability"

\* C1: summary aggregation starts only once every launched analyzer task has
\* settled, and a task that rejects changes the state of no other task.
C1_SettleAllJoin ==
    [][/\ (pc = "awaiting" /\ pc' = "returned") =>
            (\A c \in Launched(config) : Settled(c)) /\ tasks' = tasks
       /\ \A c \in CategorySet :
            (tasks[c].status = "pending" /\ tasks'[c].status = "rejected") =>
                \A d \in CategorySet \ {c} : tasks'[d] = tasks[d]]_vars

\* a report returned after one task rejected and another one fulfilled
C1_Witness ==
    /\ pc = "returned"
    /\ \E c \in Launched(config) : tasks[c].status = "rejected"
    /\ \E c \in Launched(config) : tasks[c].status = "fulfilled"

\* C2: in the returned report every rejected task has exactly one errors entry
\* naming its category and carrying its reason, and that category holds exactly
\* the synthetic high finding; every other category holds what its own analyzer
\* returned (nothing for a category that was not launched).
C2_RejectionIsolated ==
    pc = "returned" =>
        \A c \in CategorySet :
            /\ tasks[c].status = "rejected" =>
                  /\ Cardinality(ErrorEntries(c)) = 1
                  /\ \A i \in ErrorEntries(c) : results.errors[i].error = tasks[c].reason
                  /\ IsScanFailedList(results.lists[c])
            /\ tasks[c].status = "fulfilled" => results.lists[c] = tasks[c].value
            /\ tasks[c].status = "none" => results.lists[c] = <<>>

\* a report returned with a rejected task next to a task that returned a finding
C2_Witness ==
    /\ pc = "returned"
    /\ ~config.seo
    /\ \E c \in Launched(config) : tasks[c].status = "rejected"
    /\ \E c \in Launched(config) : tasks[c].status = "fulfilled" /\ Len(tasks[c].value) = 1

\* every fetch of every launched shipped analyzer threw
AllFetchesThrew ==
    /\ analyzers = "shipped"
    /\ \A c \in Launched(config) : tasks[c].fetch = "throws"

\* C3 as claimed: with every fetch failing the report has an errors entry and a
\* single synthetic high finding for every enabled category, and totalIssues
\* counts the enabled categories.
C3_AsClaimed ==
    (pc = "returned" /\ AllFetchesThrew) =>
        /\ \A c \in Launched(config) :
              ErrorEntries(c) # {} /\ IsScanFailedList(results.lists[c])
        /\ results.summary.totalIssues = Cardinality(Launched(config))

\* C3 (amended): with every fetch failing, each shipped analyzer catches the
\* failure itself: the errors list is empty, every launched analyzer's list
\* holds a single medium-severity scan-error finding, and totalIssues and
\* mediumSeverityIssues equal the number of launched analyzer tasks.
C3_UnreachableTarget ==
    (pc = "returned" /\ AllFetchesThrew) =>
        /\ results.errors = <<>>
        /\ \A c \in Launched(config) :
              /\ Len(results.lists[c]) = 1
              /\ results.lists[c][1].severity = "medium"
              /\ results.lists[c][1].category \in {"Error", "Advanced Scan Error"}
        /\ results.summary.totalIssues = Cardinality(Launched(config))
        /\ results.summary.mediumSeverityIssues = Cardinality(Launched(config))
        /\ results.summary.highSeverityIssues = 0

\* a report returned after all five shipped analyzers failed to fetch
C3_Witness ==
    /\ pc = "returned"
    /\ AllFetchesThrew
    /\ Launched(config) = CategorySet

InvalidUrlErrors == {"Valid URL is required for scanning", "Invalid URL format"}

\* C4: the only exception that reaches the caller of runScan is the invalid-URL
\* error, raised for an input that is missing or does not parse; once the
\* tasks are launched the invocation ends by returning the report.
C4_OnlyInvalidUrlThrown ==
    /\ pc = "thrown" =>
          /\ thrown \in InvalidUrlErrors
          /\ UrlMissing(url) \/ ~normalizeUrl(url).ok
    /\ pc # "thrown" => thrown = ""
    /\ pc \in {"awaiting", "returned"} => ~UrlMissing(url) /\ normalizeUrl(url).ok

\* a report returned although summary generation threw
C4_Witness ==
    /\ pc = "returned"
    /\ ErrorEntries("General") # {}
    /\ \E c \in Launched(config) : tasks[c].status = "rejected"

CountIn(list, severity) ==
    Cardinality({i \in 1..Len(list) : SeverityOf(list[i]) = severity})

\* findings of one severity over the five category lists of the report
CountOver(res, severity) ==
    CountIn(res.lists["security"], severity)
        + CountIn(res.lists["advancedSecurity"], severity)
        + CountIn(res.lists["performance"], severity)
        + CountIn(res.lists["seo"], severity)
        + CountIn(res.lists["accessibility"], severity)

\* the sum of the per-severity counters of one category
SeveritySum(counters) ==
    counters.high + counters.medium + counters.low + counters.info
        + (IF "critical" \in DOMAIN counters THEN counters.critical ELSE 0)

\* C7 as claimed: after aggregation the severity counters partition the
\* findings: totalIssues is the sum of the high, medium, low and info counters,
\* every category's total is the sum of its per-severity counters, and every
\* counter is a non-negative integer.
C7_CountersPartition ==
    (pc = "returned" /\ ErrorEntries("General") = {}) =>
        /\ results.summary.totalIssues =
              results.summary.highSeverityIssues + results.summary.mediumSeverityIssues
                  + results.summary.lowSeverityIssues + results.summary.infoItems
        /\ \A c \in CategorySet :
              /\ \A k \in DOMAIN results.summary.categories[c] :
                    results.summary.categories[c][k] \in Nat
              /\ results.summary.categories[c].total =
                    SeveritySum(results.summary.categories[c])

\* up to 2 recommendations of high findings per category, over the given
\* categories in their order, without repetition
RECURSIVE CandidatesOver(_, _, _, _)
CandidatesOver(res, cats, recommendations, k) ==
    IF k > Len(cats)
    THEN recommendations
    ELSE CandidatesOver(res, cats,
                        PushAll(recommendations,
                                Slice(HighSeverityFindings(ListOf(res, cats[k])), 2), 1),
                        k + 1)

\* C9 as claimed: the top recommendations are the first 5 candidates, each of
\* the five finding sequences contributing up to 2 high-severity
\* recommendations in category iteration order.
C9_AllFiveContribute ==
    (pc = "returned" /\ "topRecommendations" \in DOMAIN results.summary) =>
        results.summary.topRecommendations = Slice(CandidatesOver(results, Categories, <<>>, 1), 5)

\* the finding-list categories a config flag governs
GovernedBy(flag) == IF flag = "security" THEN {"security", "advancedSecurity"} ELSE {flag}

\* C10: no task is ever launched for a category whose flag is off, and the
\* returned report holds for it an empty finding list, zero counters and no
\* errors entry, whatever the other analyzers did.
C10_DisabledCategoryUntouched ==
    pc \in {"awaiting", "returned"} =>
        \A flag \in OptionKeys : ~config[flag] =>
            \A c \in GovernedBy(flag) :
                /\ tasks[c].status = "none"
                /\ results.lists[c] = <<>>
                /\ results.summary.categories[c] = ZeroCounters
                /\ ErrorEntries(c) = {}
                /\ DOMAIN results.lists = CategorySet

\* a report returned with security off while an enabled analyzer rejected and
\* another one returned a finding
C10_Witness ==
    /\ pc = "returned"
    /\ ~config.security
    /\ \E c \in Launched(config) : tasks[c].status = "rejected"
    /\ \E c \in Launched(config) : tasks[c].status = "fulfilled" /\ tasks[c].value # <<>>

(***************************************************************************)
(* Properties of generateSummary.                                          *)
(***************************************************************************)
\* the report as it was before generateSummary counted it
Uncounted(res) == [res EXCEPT !.summary = InitialSummary]

InfoFinding == Finding("Check", "info", "informational", NoRecommendation)

\* 100 - 10 high - 5 medium - 2 low over the five lists, not below 0
ExpectedScore(res) ==
    LET raw == 100 - 10 * CountOver(res, "high") - 5 * CountOver(res, "medium")
                 - 2 * CountOver(res, "low")
    IN  IF raw < 0 THEN 0 ELSE raw

\* C6: the score is max(0, 100 - 10 high - 5 medium - 2 low) with the counts
\* taken over the findings of all five lists, and one more info finding in any
\* category leaves it unchanged.
C6_ScoreFormula ==
    pc = "summarized" =>
        /\ results.summary.overallScore = ExpectedScore(results)
        /\ \A c \in CategorySet :
              generateSummary(AppendTo(Uncounted(results), c, InfoFinding)).results.summary.overallScore
                  = results.summary.overallScore

\* a summarized report whose deductions exceed 100 and which holds high,
\* medium or low findings in two categories next to an info finding
C6_Witness ==
    /\ pc = "summarized"
    /\ 10 * CountOver(results, "high") + 5 * CountOver(results, "medium")
          + 2 * CountOver(results, "low") > 100
    /\ results.summary.overallScore = 0
    /\ results.summary.infoItems > 0

\* C8: topRecommendations holds no text twice, at most 5 texts, and each text is
\* the recommendation of a high-severity finding of the report.
C8_TopRecommendationsBounded ==
    (pc = "summarized" /\ "topRecommendations" \in DOMAIN results.summary) =>
        LET top == results.summary.topRecommendations
        IN  /\ Len(top) <= 5
            /\ \A i, j \in 1..Len(top) : i # j => top[i] # top[j]
            /\ \A i \in 1..Len(top) :
                  \E c \in CategorySet : \E k \in 1..Len(results.lists[c]) :
                      /\ results.lists[c][k].severity = "high"
                      /\ results.lists[c][k].recommendation = top[i]

\* a summarized report whose high findings offer more than 5 distinct texts in
\* at least three categories, so that the cap cuts the list
C8_Witness ==
    /\ pc = "summarized"
    /\ Len(results.summary.topRecommendations) = 5
    /\ Len(Collect(results, <<>>, 1)) > 5
    /\ Len(HighSeverityFindings(results.lists["accessibility"])) > 0

C12_InvalidUrlBeforeLaunch ==
    pc = "thrown" =>
        /\ \A c \in CategorySet : tasks[c] = NoTask
        /\ results = NewReport("")

\* runScan threw on a URL that does not parse, with every category enabled
C12_Witness ==
    /\ pc = "thrown"
    /\ thrown = "Invalid URL format"
    /\ Launched(config) = CategorySet

\* what the claim counts as an input that is not a valid URL: a missing or
\* empty input, a text that does not parse, and the bare word 'not-a-valid-url'
NotAValidUrl(u) ==
    \/ UrlMissing(u)
    \/ URLParseThrows(WithDefaultScheme(u))
    \/ (u.scheme = "" /\ u.host = "not-a-valid-url")

\* C13 as claimed: runScan rejects every input that is not a valid URL with
\* an error whose message contains 'Invalid URL format' and returns no report
\* for it; this covers 'not-a-valid-url' and the empty input.
C13_InvalidUrlRejected ==
    (pc # "idle" /\ NotAValidUrl(url)) => (pc = "thrown" /\ thrown = "Invalid URL format")

\* the text normalizeUrl is expected to return for an input that parses
ExpectedHref(u) ==
    (IF u.scheme \in {"http://", "https://"} THEN "" ELSE "https://")
        \o u.scheme \o u.host \o (IF u.path = "" THEN "/" ELSE u.path)

\* C14: normalizeUrl prepends 'https://' exactly when the input begins with
\* neither 'http://' nor 'https://', keeps an existing scheme, and turns an
\* empty path into '/': 'example.com' gives 'https://example.com/',
\* 'http://example.com' gives 'http://example.com/', and
\* 'https://example.com/path' comes back unchanged.
C14_NormalizeUrl ==
    pc = "awaiting" =>
        /\ results.url = ExpectedHref(url)
        /\ url = UrlString("", "example.com", "") => results.url = "https://example.com/"
        /\ url = UrlString("http://", "example.com", "") => results.url = "http://example.com/"
        /\ url = UrlString("https://", "example.com", "/path") =>
              results.url = "https://example.com/path"

\* runScan normalised 'http://example.com'
C14_Witness ==
    /\ pc = "awaiting"
    /\ url = UrlString("http://", "example.com", "")
    /\ results.url = "http://example.com/"

\* C15: getInfo() returns the same static data on every call, whatever the
\* state of the scans (none started, tasks pending, report returned, URL
\* refused), and a call changes nothing of the scanner's state.
C15_GetInfoStatic ==
    [][/\ info' # info => UNCHANGED runScanVars
       /\ info' # NoInfo =>
            /\ info # NoInfo => info' = info
            /\ info'.name = "Website Audit Tool Scanner"
            /\ info'.version = "1.0.0"
            /\ Len(info'.capabilities) = 6
            /\ info'.supportedProtocols = <<"http", "https">>
            /\ info'.maxConcurrentScans = 4]_vars

\* getInfo was called while analyzer tasks were pending and others had settled
C15_Witness ==
    /\ info # NoInfo
    /\ pc = "awaiting"
    /\ \E c \in CategorySet : tasks[c].status = "pending"
    /\ \E c \in CategorySet : tasks[c].status = "rejected"

(***************************************************************************)
(* Properties of the Active Security Analyzer.                             *)
(***************************************************************************)
\* the findings of scan that report the routine-level error of routine k
ScanErrorIndexes(a, k) ==
    {i \in 1..Len(a.findings) : a.findings[i].issue = Routines[k].error}

\* C16: a probe that throws does not abort its routine: the routine goes on
\* with its next probe. An exception at the level of any of the ten routines
\* becomes exactly one low-severity scan-error finding of that routine's
\* category, never reaches scan's own catch block, and the routines after it
\* still run: scan ends with all ten routines returned.
C16_RoutineIsolation ==
    [][/\ advanced'.probeFailures > advanced.probeFailures =>
            /\ advanced'.pc = "running"
            /\ advanced'.routine = advanced.routine
            /\ advanced'.probe = advanced.probe + 1
            /\ advanced'.returned = advanced.returned
       /\ advanced'.pc = "running" => advanced'.returned = 1..(advanced'.routine - 1)
       /\ (advanced'.pc = "done" /\ advanced'.fetch = "data") =>
            /\ advanced'.returned = 1..Len(Routines)
            /\ \A i \in 1..Len(advanced'.findings) :
                  advanced'.findings[i].category # "Advanced Scan Error"
       /\ \A k \in 1..Len(Routines) :
            /\ Cardinality(ScanErrorIndexes(advanced', k)) =
                  (IF k \in advanced'.threw THEN 1 ELSE 0)
            /\ \A i \in ScanErrorIndexes(advanced', k) :
                  /\ advanced'.findings[i].severity = "low"
                  /\ advanced'.findings[i].category = Routines[k].category]_vars

\* scan ended after a probe threw and a routine threw, and a later routine
\* added a finding behind the scan-error finding
C16_Witness ==
    /\ advanced.pc = "done"
    /\ advanced.probeFailures > 0
    /\ \E k \in advanced.threw, i, j \in 1..Len(advanced.findings) :
          /\ i < j
          /\ advanced.findings[i].issue = Routines[k].error
          /\ advanced.findings[j].category # Routines[k].category

ScriptTagFinding ==
    AdvancedFinding("Injection", "high", "Reflected XSS Vulnerability",
                    "<script>alert('XSS')</script>")

\* C20: when the scanned URL has a query parameter and the target sends each
\* payload set on it back verbatim, the findings of the Active Security
\* Analyzer hold an 'Injection' finding of severity high whose evidence is the
\* script-tag payload; a finding of reflected XSS is never reported for a
\* target that does not send the payload back.
C20_ReflectedXss ==
    advanced.pc = "done" =>
        /\ (/\ advanced.fetch = "data"
            /\ advanced.query # ""
            /\ advanced.reflection = "verbatim"
            /\ advanced.probeFailures = 0
            /\ 3 \notin advanced.threw) =>
              \E i \in 1..Len(advanced.findings) : advanced.findings[i] = ScriptTagFinding
        /\ \A i \in 1..Len(advanced.findings) :
              advanced.findings[i].issue = "Reflected XSS Vulnerability" =>
                  /\ advanced.reflection = "verbatim"
                  /\ advanced.query # ""
                  /\ advanced.findings[i].category = "Injection"
                  /\ advanced.findings[i].severity = "high"
                  /\ \E n \in 1..3 : advanced.findings[i].evidence = xssPayloads[n]

\* scan ended on a target that reflects the parameter q and matches no other
\* check, with the script-tag finding among its findings
C20_Witness ==
    /\ advanced.pc = "done"
    /\ advanced.query = "q"
    /\ ~advanced.vulnerable
    /\ \E i \in 1..Len(advanced.findings) : advanced.findings[i] = ScriptTagFinding

(***************************************************************************)
(* Properties of the Performance Analyzer.                                 *)
(***************************************************************************)
\* C17 as claimed: the headless browser is closed on every exit path of
\* runBrowserPerformanceTest, the paths on which page creation, navigation or
\* metric collection throws included.
C17_BrowserClosed ==
    performance.pc = "done" => performance.browser # "open"

\* C18: a failure of the headless browser is caught inside the performance
\* analyzer and becomes exactly one low-severity finding; the findings of the
\* page analyses are kept in front of it, no scan-error finding is added, and
\* scan returns its findings.
C18_BrowserFailureContained ==
    (performance.pc = "done" /\ performance.failed # "") =>
        /\ performance.findings = Append(performance.page, BrowserUnavailable)
        /\ Cardinality({i \in 1..Len(performance.findings) :
                          /\ performance.findings[i].category = "Browser Performance"
                          /\ performance.findings[i].severity = "low"}) = 1
        /\ \A i \in 1..Len(performance.findings) :
              performance.findings[i] # ScanErrorFinding("performance")

\* scan returned after the navigation threw, with a finding of a page analysis
C18_Witness ==
    /\ performance.pc = "done"
    /\ performance.failed = "goto"
    /\ Len(performance.page) = 1

(***************************************************************************)
(* Properties of the baseline Security Analyzer.                           *)
(***************************************************************************)
\* the findings that report a missing security header
MissingHeaderIndexes(findings) ==
    {i \in 1..Len(findings) :
        /\ findings[i].category = "Security Headers"
        /\ \E k \in 1..Len(securityHeaders) :
              findings[i].issue = "Missing " \o securityHeaders[k] \o " header"}

Contributes(check, list) ==
    \A k \in 1..Len(check) : \E i \in 1..Len(list) : list[i] = check[k]

\* C21 as claimed: the checks of the baseline analyzer are independent: when
\* one check throws (the cookie check on a Set-Cookie that is a single string,
\* say), every other check still contributes its findings to the result.
C21_ChecksIndependent ==
    (security.pc = "done" /\ security.fetch = "data") =>
        /\ Contributes(checkSecurityHeaders(security.headers), security.findings)
        /\ Contributes(checkHTTPS(security.scheme, security.headers), security.findings)
        /\ Contributes(checkClickjacking(security.headers), security.findings)


RateLimitDone == routine.pc = "done" /\ routine.check = "rateLimit"

\* a response of the burst that shows rate limiting: status 429 or 503, or a
\* rate-limit header
ShowsRateLimiting(r) ==
    /\ r.settled = "fulfilled"
    /\ r.status \in {429, 503} \/ r.headers # {}

\* C22 as claimed: the insecure-design routine reports missing rate limiting
\* whenever no response of the burst has status 429 or 503 or a rate-limit
\* header, whatever the other statuses are.
C22_AsClaimed ==
    (RateLimitDone /\ \A i \in 1..BurstSize : ~ShowsRateLimiting(routine.responses[i])) =>
        routine.findings = <<MissingRateLimiting>>

\* C22, amended: missing rate limiting is reported exactly when no response of
\* the burst shows rate limiting and at most one of the five requests did not
\* come back with status 200.
C22_MissingRateLimiting ==
    RateLimitDone =>
        (routine.findings = <<MissingRateLimiting>>
           <=> /\ \A i \in 1..BurstSize : ~ShowsRateLimiting(routine.responses[i])
               /\ \E i \in 1..BurstSize : \A j \in 1..BurstSize \ {i} :
                     routine.responses[j] = Fulfilled(200, {}))
        /\ routine.findings \in {<<>>, <<MissingRateLimiting>>}

\* four requests answered 200, one answered 404, and the finding is there
C22_Witness ==
    /\ RateLimitDone
    /\ routine.responses[3] = Fulfilled(404, {})
    /\ \A j \in {1, 2, 4, 5} : routine.responses[j] = Fulfilled(200, {})
    /\ routine.findings = <<MissingRateLimiting>>


\* a.b.c is not after x.y.z
VersionAtMost(v, w) ==
    \/ v[1] < w[1]
    \/ v[1] = w[1] /\ v[2] < w[2]
    \/ v[1] = w[1] /\ v[2] = w[2] /\ v[3] <= w[3]

\* the version lies inside a range the table lists for the library
InListedRange(lib, version) ==
    /\ lib \in DOMAIN vulnerabilityDatabase
    /\ \E range \in vulnerabilityDatabase[lib] :
          VersionAtMost(range[1], version) /\ VersionAtMost(version, range[3])

\* C23 as claimed: the vulnerable-components routine emits a high finding for
\* every script source whose file name names a library and a version inside a
\* version range of the vulnerability table, with the library and the version
\* as evidence.
C23_VulnerableComponents ==
    (routine.pc = "done" /\ routine.check = "components") =>
        \A i \in DOMAIN routine.scripts :
            InListedRange(routine.scripts[i].lib, routine.scripts[i].version) =>
                \E k \in DOMAIN routine.findings :
                    /\ routine.findings[k].severity = "high"
                    /\ routine.findings[k].evidence = routine.scripts[i]


ReportedByBaseline(header, headers) ==
    \E i \in DOMAIN checkSecurityHeaders(headers) :
        checkSecurityHeaders(headers)[i].issue = "Missing " \o header \o " header"

ReportedByMisconfiguration(header, findings) ==
    \E i \in DOMAIN findings : findings[i].issue = "Missing security header: " \o header

\* C24 as claimed: the security-misconfiguration routine checks the same set
\* of security headers as the baseline analyzer (HSTS, CSP, frame-options,
\* content-type-options, XSS-protection, referrer-policy, permissions-policy):
\* a missing header is reported by the one exactly when it is reported by the
\* other.
C24_SameHeaderSet ==
    (routine.pc = "done" /\ routine.check = "misconfiguration") =>
        \A k \in DOMAIN securityHeaders :
            ReportedByMisconfiguration(securityHeaders[k], routine.findings)
               <=> ReportedByBaseline(securityHeaders[k], routine.headers)


\* the identifiers that, in ascending order, are directly followed by their
\* successor: one for every value v collected together with v + 1
FollowedBySuccessor(ids) ==
    {v \in 1..MaxId + 1 :
        (\E i \in DOMAIN ids : ids[i] = v) /\ (\E j \in DOMAIN ids : ids[j] = v + 1)}

\* C25: the sequential-identifier check emits at most one finding, and only
\* when at least 10 identifiers were collected and, in ascending order, more
\* than half of them are followed by their successor (id + 1).
C25_SequentialIds ==
    (routine.pc = "done" /\ routine.check = "sequentialIds") =>
        /\ Len(routine.findings) <= 1
        /\ routine.findings # <<>> =>
              /\ Len(routine.ids) >= 10
              /\ 2 * Cardinality(FollowedBySuccessor(routine.ids)) > Len(routine.ids)

\* ten identifiers 1, 1, 2, 2, 3, 3, 4, 5, 6, 7, collected in descending order:
\* six of them are followed by their successor, and the finding is there
C25_Witness ==
    /\ routine.pc = "done" /\ routine.check = "sequentialIds"
    /\ routine.ids = <<7, 6, 5, 4, 3, 3, 2, 2, 1, 1>>
    /\ routine.findings = <<SequentialIdentifiers(6)>>


\* the position in scan of the routine that reports under a category; the
\* finding of scan's own catch block comes after all of them
RoutinePosition ==
    [category \in {Routines[k].category : k \in 1..Len(Routines)} \cup {AdvancedScanError.category} |->
        IF category = AdvancedScanError.category
        THEN Len(Routines) + 1
        ELSE CHOOSE k \in 1..Len(Routines) : Routines[k].category = category]

RoutineOf(category) == RoutinePosition[category]

\* C26: the ten routines of the active analyzer run strictly in sequence, in
\* the order A01..A10: while a routine is at work (issuing its requests) every
\* routine before it has returned and no routine after it has started, and the
\* findings of the scan are those of the routines concatenated in that order.
C26_RoutinesInSequence ==
    /\ Len(Routines) = 10
    /\ advanced.pc = "running" =>
          /\ advanced.routine \in 1..10
          /\ advanced.returned = 1..(advanced.routine - 1)
          /\ \A i \in DOMAIN advanced.findings :
                RoutineOf(advanced.findings[i].category) <= advanced.routine
    /\ (advanced.pc = "done" /\ advanced.fetch = "data") => advanced.returned = 1..10
    /\ \A i \in 1..(Len(advanced.findings) - 1) :
          RoutineOf(advanced.findings[i].category)
             <= RoutineOf(advanced.findings[i + 1].category)

\* the last routine is probing, the first nine have returned, and the findings
\* so far begin with one of A01 and end with one of A09
C26_Witness ==
    /\ advanced.pc = "running"
    /\ advanced.routine = 10
    /\ advanced.probe = 1
    /\ Len(advanced.findings) >= 2
    /\ advanced.findings[1].category = "Broken Access Control"
    /\ advanced.findings[Len(advanced.findings)].category = "Logging & Monitoring"


\* C27: the scan(url) of a shipped analyzer always fulfils with a list and
\* never rejects, whatever its fetch does; so with the shipped analyzers no
\* task is rejected, the errors list of every report is empty and the
\* synthetic 'scan failed' finding never appears.
C27_ShippedNeverReject ==
    analyzers = "shipped" =>
        /\ \A c \in CategorySet :
              /\ tasks[c].status # "rejected"
              /\ tasks[c].value # NotAnArray
        /\ results.errors = <<>>
        /\ \A c \in DOMAIN results.lists : \A i \in DOMAIN results.lists[c] :
              results.lists[c][i] # ScanFailedFinding(c)

\* a report of the shipped analyzers whose fetches threw, came back without a
\* body, and came back with a page
C27_Witness ==
    /\ analyzers = "shipped"
    /\ pc = "returned"
    /\ tasks["security"].fetch = "throws"
    /\ tasks["performance"].fetch = "nodata"
    /\ tasks["seo"].fetch = "data"
    /\ results.lists["security"] = <<ScanErrorFinding("security")>>

\* C28: result routing never desynchronizes: for each of the 16 combinations
\* of the four flags, the i-th settled result is stored under the category of
\* the analyzer launched i-th; nothing is stored under another category or
\* under 'unknown'.
C28_RoutingInStep ==
    pc \in {"awaiting", "returned"} =>
        /\ \A i \in 1..Len(ScanPromises(config)) :
              /\ getScanTypeByIndex(i, config) = ScanPromises(config)[i]
              /\ (pc = "returned" /\ tasks[ScanPromises(config)[i]].status = "fulfilled") =>
                    results.lists[ScanPromises(config)[i]] = tasks[ScanPromises(config)[i]].value
        /\ DOMAIN results.lists = CategorySet
        /\ \A c \in CategorySet \ Launched(config) : results.lists[c] = <<>>
        /\ \A k \in DOMAIN results.errors :
              results.errors[k].category \in Launched(config) \cup {"General"}

\* security and seo are off: the second settled result is the accessibility
\* analyzer's, and its finding is in the accessibility list
C28_Witness ==
    /\ pc = "returned"
    /\ ScanPromises(config) = <<"performance", "accessibility">>
    /\ Len(tasks["accessibility"].value) = 1
    /\ results.lists["accessibility"] = tasks["accessibility"].value
    /\ results.lists["performance"] = <<>>


\* the report a runScan invocation builds from its own URL, config and tasks
OwnReport(call) ==
    Processed(NewReport(normalizeUrl(call.url).href), call.config, call.tasks)

\* C29: two runScan invocations in flight on the same WebsiteScanner do not
\* interfere: the report of each holds the URL, findings, errors and counters
\* of its own analyzers' results only, however the steps of the two interleave.
C29_InvocationsIndependent ==
    \A k \in 1..2 :
        /\ concurrent.calls[k].pc = "awaiting" =>
              concurrent.objects[ResultsObject(k)]
                 = NewReport(normalizeUrl(concurrent.calls[k].url).href)
        /\ concurrent.calls[k].pc = "returned" =>
              concurrent.objects[ResultsObject(k)] = OwnReport(concurrent.calls[k])

\* the first invocation has returned a report with a finding while the second,
\* started before the first returned and for another URL, is still awaiting
C29_Witness ==
    /\ concurrent.calls[1].pc = "returned"
    /\ concurrent.calls[2].pc = "awaiting"
    /\ concurrent.calls[1].url # concurrent.calls[2].url
    /\ concurrent.objects[ResultsObject(1)].summary.totalIssues = 1
    /\ \E c \in CategorySet : concurrent.calls[2].tasks[c].status = "fulfilled"


\* the positions of the 202 responses among the responses sent so far
Accepted == {i \in DOMAIN controller.responses : controller.responses[i].code = 202}

ScanIdsNeverReused ==
    /\ \A i, j \in Accepted :
          i # j => controller.responses[i].body.scanId # controller.responses[j].body.scanId
    /\ DOMAIN controller.scanResults = {controller.responses[i].body.scanId : i \in Accepted}
    /\ \A scanId \in DOMAIN controller.scanResults :
          /\ controller.scanResults[scanId].id = scanId
          /\ controller.scanResults[scanId].status \in {"in_progress", "completed", "failed"}
          /\ scanId \in InFlight => controller.scanResults[scanId].status = "in_progress"

StatusChangesOnce ==
    /\ \A scanId \in DOMAIN controller.scanResults :
          /\ scanId \in DOMAIN controller'.scanResults
          /\ controller'.scanResults[scanId].status # controller.scanResults[scanId].status =>
                /\ controller.scanResults[scanId].status = "in_progress"
                /\ controller'.scanResults[scanId].status \in {"completed", "failed"}
          /\ controller'.scanResults[scanId] # controller.scanResults[scanId] =>
                \A other \in DOMAIN controller.scanResults \ {scanId} :
                    controller'.scanResults[other] = controller.scanResults[other]
    /\ \A scanId \in DOMAIN controller'.scanResults \ DOMAIN controller.scanResults :
          /\ controller'.scanResults[scanId].status = "in_progress"
          /\ controller'.scanResults = controller.scanResults @@ (scanId :> controller'.scanResults[scanId])

\* C30: every accepted POST /api/scan gets a scan id that was never used
\* before and a record with status in_progress; a record changes status at
\* most once, to completed or to failed, and never back to in_progress; a
\* completion or failure updates the record of its own scan only.
C30_ScanRecords == [](ScanIdsNeverReused) /\ [][StatusChangesOnce]_vars

\* three scans were accepted: the first has failed, the second has completed,
\* the third is still in progress
C30_Witness ==
    /\ DOMAIN controller.scanResults = 1..3
    /\ controller.scanResults[1].status = "failed"
    /\ controller.scanResults[2].status = "completed"
    /\ controller.scanResults[3].status = "in_progress"

====
